---- MODULE Spec2Model ----
(***************************************************************************)
(* TemplateForge: the project generation engine (app/generator/engine.py)  *)
(* and the template catalog it reads (app/templates/*.py).                 *)
(*                                                                         *)
(* Texts (str) are sequences of one-character strings.  File contents that *)
(* the engine only copies are sequences of opaque segments; the segment    *)
(* "{{name}}" is the placeholder token.                                    *)
(*                                                                         *)
(* The Generate handler of the main window (app/ui/main_window.py) is      *)
(* modelled up to the start of the GeneratorThread.                        *)
(***************************************************************************)
EXTENDS Integers, Sequences, FiniteSets, TLC

VARIABLES
    \* merge_requirements called on its own
    base_req, feature_req, merged, remerged, mpc,
    \* the dict objects of the process: the catalog's module-level dicts and
    \* the template_files dict of each generate_project call
    heap,
    \* the filesystem: the directories that exist, and each file's content
    dirs, files,
    \* the locals of each generate_project call
    call,
    \* the main window: the name field and its hint, the message box shown
    \* last, the GeneratorThread started
    ui

mergeVars == <<base_req, feature_req, merged, remerged, mpc>>
genVars == <<heap, dirs, files, call>>
uiVars == <<ui>>
vars == <<base_req, feature_req, merged, remerged, mpc, heap, dirs, files, call, ui>>

-----------------------------------------------------------------------------
(* Bounds                                                                  *)

\* longest manifest text drawn as an input of merge_requirements
MaxLen == 3

\* most words of a template name drawn for the template selection
MaxWords == 2

\* longest feature list, when only template_files is composed
MaxFeatures == 2

\* longest feature list of a whole generate_project call
MaxGenFeatures == 1

-----------------------------------------------------------------------------
(* str primitives                                                          *)

NL == "\n"

\* the characters str.strip() and a truthiness test of line.strip() treat as blank
Whitespace == {" ", "\t", "\n", "\r"}

\* code points: Python orders str values by code point
Ord ==
    ("\t" :> 9) @@ ("\n" :> 10) @@ ("\r" :> 13) @@ (" " :> 32) @@ ("-" :> 45) @@
    ("." :> 46) @@ ("/" :> 47) @@ ("0" :> 48) @@ ("1" :> 49) @@ ("2" :> 50) @@
    ("3" :> 51) @@ ("4" :> 52) @@ ("5" :> 53) @@ ("6" :> 54) @@ ("7" :> 55) @@
    ("8" :> 56) @@ ("9" :> 57) @@ ("=" :> 61) @@ (">" :> 62) @@ ("A" :> 65) @@
    ("B" :> 66) @@ ("C" :> 67) @@ ("D" :> 68) @@ ("F" :> 70) @@ ("I" :> 73) @@
    ("M" :> 77) @@ ("N" :> 78) @@ ("P" :> 80) @@ ("R" :> 82) @@ ("S" :> 83) @@
    ("W" :> 87) @@ ("[" :> 91) @@ ("]" :> 93) @@ ("_" :> 95) @@ ("a" :> 97) @@
    ("b" :> 98) @@ ("c" :> 99) @@ ("d" :> 100) @@ ("e" :> 101) @@ ("f" :> 102) @@
    ("g" :> 103) @@ ("h" :> 104) @@ ("i" :> 105) @@ ("j" :> 106) @@ ("k" :> 107) @@
    ("l" :> 108) @@ ("m" :> 109) @@ ("n" :> 110) @@ ("o" :> 111) @@ ("p" :> 112) @@
    ("q" :> 113) @@ ("r" :> 114) @@ ("s" :> 115) @@ ("t" :> 116) @@ ("u" :> 117) @@
    ("v" :> 118) @@ ("w" :> 119) @@ ("x" :> 120) @@ ("y" :> 121)

\* s < t for two str values: decided by the first differing code point; a
\* proper prefix is smaller
StrLess(s, t) ==
    LET n == IF Len(s) < Len(t) THEN Len(s) ELSE Len(t)
        diff == {i \in 1..n : s[i] # t[i]}
    IN  IF diff = {} THEN Len(s) < Len(t)
        ELSE LET i == CHOOSE j \in diff : \A k \in diff : j <= k
             IN  Ord[s[i]] < Ord[t[i]]

\* s.split(sep) for a one-character separator: one piece more than there are
\* separators, each the text between two neighbouring separators
Split(s, sep) ==
    LET at == {i \in 1..Len(s) : s[i] = sep}
        nth(j) == IF j = 0 THEN 0
                  ELSE IF j > Cardinality(at) THEN Len(s) + 1
                  ELSE CHOOSE i \in at : Cardinality({x \in at : x < i}) = j - 1
    IN  [j \in 1..(Cardinality(at) + 1) |-> SubSeq(s, nth(j - 1) + 1, nth(j) - 1)]

\* s.strip()
Strip(s) ==
    LET solid == {i \in 1..Len(s) : s[i] \notin Whitespace}
    IN  IF solid = {} THEN <<>>
        ELSE SubSeq(s, CHOOSE i \in solid : \A k \in solid : i <= k,
                       CHOOSE i \in solid : \A k \in solid : i >= k)

\* sep.join(pieces)
RECURSIVE Join(_, _)
Join(pieces, sep) ==
    IF pieces = <<>> THEN <<>>
    ELSE IF Len(pieces) = 1 THEN pieces[1]
    ELSE pieces[1] \o <<sep>> \o Join(Tail(pieces), sep)

\* sorted(S) for a set of str
Sorted(S) ==
    [i \in 1..Cardinality(S) |->
        CHOOSE x \in S : Cardinality({y \in S : StrLess(y, x)}) = i - 1]

\* set(line.strip() for line in text.split('\n') if line.strip())
StrippedLines(text) ==
    LET lines == Split(text, NL)
    IN  {Strip(lines[i]) : i \in {j \in 1..Len(lines) : Strip(lines[j]) # <<>>}}

-----------------------------------------------------------------------------
(* merge_requirements                                                      *)

\* a slip: the two line lists are concatenated instead of united as sets
merge_requirements_concat(b_req, f_req) ==
    Join(Sorted(StrippedLines(b_req)) \o Sorted(StrippedLines(f_req)), NL) \o <<NL>>

\* a slip: the feature manifest is united before the base and the union is
\* left in that order instead of being sorted
merge_requirements_unsorted(b_req, f_req) ==
    Join(Sorted(StrippedLines(f_req))
         \o Sorted(StrippedLines(b_req) \ StrippedLines(f_req)), NL) \o <<NL>>

\* a slip: lines are tested for blankness but added unstripped
merge_requirements_nostrip(b_req, f_req) ==
    LET raw(text) == LET lines == Split(text, NL)
                     IN  {lines[i] : i \in {j \in 1..Len(lines) : Strip(lines[j]) # <<>>}}
    IN  Join(Sorted(raw(b_req) \cup raw(f_req)), NL) \o <<NL>>

merge_requirements(b_req, f_req) ==
    LET base_lines == StrippedLines(b_req)
        feature_lines == StrippedLines(f_req)
        all_requirements == base_lines \cup feature_lines
    IN  Join(Sorted(all_requirements), NL) \o <<NL>>

-----------------------------------------------------------------------------
(* dict: an insertion-ordered sequence of <<key, value>> items             *)

DictHas(d, k) == \E i \in 1..Len(d) : d[i][1] = k

\* d.get(k, default)
DictGet(d, k, default) ==
    IF DictHas(d, k) THEN d[CHOOSE i \in 1..Len(d) : d[i][1] = k][2] ELSE default

\* d[k] = v: an existing key keeps its position, a new key goes last
DictSet(d, k, v) ==
    IF DictHas(d, k)
    THEN [i \in 1..Len(d) |-> IF d[i][1] = k THEN <<k, v>> ELSE d[i]]
    ELSE Append(d, <<k, v>>)

DictKeys(d) == {d[i][1] : i \in 1..Len(d)}

\* a slip: the "copy" is the catalog's own dict object
DictCopy_alias(h, src, new) == [ref |-> src, heap |-> h]

\* src.copy(): a new dict object with the same items
DictCopy(h, src, new) == [ref |-> new, heap |-> (new :> h[src]) @@ h]

\* (the dict at ref)[k] = v
StoreItem(h, ref, k, v) == [h EXCEPT ![ref] = DictSet(@, k, v)]

-----------------------------------------------------------------------------
(* substring test                                                          *)

\* sub in s
Contains(sub, s) ==
    \E i \in 0..(Len(s) - Len(sub)) : SubSeq(s, i + 1, i + Len(sub)) = sub

-----------------------------------------------------------------------------
(* The template catalog (app/templates).  A manifest is kept character by *)
(* character; any other content is cut at each "{{name}}" and at each     *)
(* database URL scheme ("postgresql://", "mongodb://"), and every piece   *)
(* in between is an opaque segment, named by the first six hex digits of  *)
(* the SHA-1 of its text, so that equal texts are equal contents.         *)

\* app/templates/react_web.py BASE_TEMPLATE
react_web_BASE_TEMPLATE ==
    <<
      << <<"package.json">>, <<"#99b7ca", "{{name}}", "#ddc8c6">> >>,
      << <<"tsconfig.json">>, <<"#6f9173">> >>,
      << <<"public", "index.html">>, <<"#ca2860", "{{name}}", "#6a6a07", "{{name}}", "#b32a90">> >>,
      << <<"src", "index.tsx">>, <<"#e00c17">> >>,
      << <<"src", "App.tsx">>, <<"#fe9c44", "{{name}}", "#3318ff">> >>,
      << <<"src", "App.css">>, <<"#2c6a25">> >>,
      << <<"src", "index.css">>, <<"#c2e651">> >>,
      << <<"src", "react-app-env.d.ts">>, <<"#568005">> >>,
      << <<".env.example">>, <<"#0b3166", "{{name}}", "#2a9359">> >>,
      << <<".env">>, <<"#0b3166", "{{name}}", "#2a9359">> >>,
      << <<"README.md">>, <<"#a0b2aa", "{{name}}", "#efac46", "{{name}}", "#d106a7">> >>,
      << <<".gitignore">>, <<"#3515d7">> >>
    >>

\* app/templates/nodejs_app.py BASE_TEMPLATE
nodejs_app_BASE_TEMPLATE ==
    <<
      << <<"package.json">>, <<"#99b7ca", "{{name}}", "#ba0631">> >>,
      << <<"src", "index.js">>, <<"#7edf7f">> >>,
      << <<".env.example">>, <<"#a4ee6e">> >>,
      << <<".env">>, <<"#a4ee6e">> >>,
      << <<"README.md">>, <<"#a0b2aa", "{{name}}", "#25b45f", "{{name}}", "#ad0b73">> >>,
      << <<".gitignore">>, <<"#4cc73c">> >>
    >>

\* app/templates/nodejs_app.py FEATURES['API Integration']
nodejs_app_FEATURE_APIIntegration ==
    <<
      << <<"src", "routes", "api.js">>, <<"#6afcb7">> >>,
      << <<"src", "middlewares", "validation.js">>, <<"#5eb8f6">> >>,
      << <<"src", "middlewares", "auth.js">>, <<"#5b8819">> >>,
      << <<"src", "controllers", "itemController.js">>, <<"#f2f34d">> >>,
      << <<"src", "services", "itemService.js">>, <<"#7fcc21">> >>,
      << <<"src", "index.js">>, <<"#69a701">> >>,
      << <<"package.json">>, <<"#99b7ca", "{{name}}", "#2065dc">> >>
    >>

\* app/templates/nodejs_app.py FEATURES['WebSocket']
nodejs_app_FEATURE_WebSocket ==
    <<
      << <<"src", "websocket", "server.js">>, <<"#326203">> >>,
      << <<"package.json">>, <<"#99b7ca", "{{name}}", "#0455d9">> >>
    >>

\* app/templates/desktop_app.py BASE_TEMPLATE
desktop_app_BASE_TEMPLATE ==
    <<
      << <<"app", "__init__.py">>, <<>> >>,
      << <<"app", "main.py">>, <<"#4d58fb">> >>,
      << <<"app", "config", "__init__.py">>, <<"#0a007e">> >>,
      << <<"app", "config", "settings.py">>, <<"#9b75ef", "{{name}}", "#019665">> >>,
      << <<"app", "services", "__init__.py">>, <<"#9d00e4">> >>,
      << <<"app", "services", "data_service.py">>, <<"#c9cd18">> >>,
      << <<"app", "utils", "__init__.py">>, <<"#55eca4">> >>,
      << <<"app", "utils", "constants.py">>, <<"#5da202", "{{name}}", "#fe6127">> >>,
      << <<"app", "utils", "helpers.py">>, <<"#0e0303">> >>,
      << <<"app", "ui", "__init__.py">>, <<>> >>,
      << <<"app", "ui", "main_window.py">>, <<"#8c715f">> >>,
      << <<"app", "models", "__init__.py">>, <<>> >>,
      << <<"app", "models", "data_model.py">>, <<"#8e816d">> >>,
      << <<"requirements.txt">>,
         <<"P", "y", "S", "i", "d", "e", "6", ">", "=", "6", ".", "5", ".", "0", "\n",
           "p", "y", "d", "a", "n", "t", "i", "c", ">", "=", "2", ".", "0", ".", "0", "\n",
           "p", "y", "d", "a", "n", "t", "i", "c", "-", "s", "e", "t", "t", "i", "n", "g", "s", ">", "=", "2", ".", "0", ".", "0", "\n",
           "p", "y", "t", "h", "o", "n", "-", "d", "o", "t", "e", "n", "v", ">", "=", "1", ".", "0", ".", "0", "\n">> >>,
      << <<".env">>, <<"#c3c2b7", "{{name}}", "#768b7b">> >>,
      << <<"run.py">>, <<"#b92819">> >>,
      << <<"README.md">>, <<"#a0b2aa", "{{name}}", "#d9cbae", "{{name}}", "#4cf00a", "{{name}}", "#ca85a7">> >>,
      << <<".gitignore">>, <<"#9835f6">> >>
    >>

\* app/templates/desktop_app.py FEATURES['API Integration']
desktop_app_FEATURE_APIIntegration ==
    <<
      << <<"api", "__init__.py">>, <<>> >>,
      << <<"api", "main.py">>, <<"#93bf39", "{{name}}", "#641777", "{{name}}", "#c329c8", "{{name}}", "#cbe54a", "{{name}}", "#d2961b", "{{name}}", "#4a3e7a", "{{name}}", "#bf10ad">> >>,
      << <<"run_api.py">>, <<"#72b248">> >>,
      << <<"requirements.txt">>,
         <<"P", "y", "S", "i", "d", "e", "6", ">", "=", "6", ".", "5", ".", "0", "\n",
           "p", "y", "d", "a", "n", "t", "i", "c", ">", "=", "2", ".", "0", ".", "0", "\n",
           "p", "y", "d", "a", "n", "t", "i", "c", "-", "s", "e", "t", "t", "i", "n", "g", "s", ">", "=", "2", ".", "0", ".", "0", "\n",
           "p", "y", "t", "h", "o", "n", "-", "d", "o", "t", "e", "n", "v", ">", "=", "1", ".", "0", ".", "0", "\n",
           "f", "a", "s", "t", "a", "p", "i", ">", "=", "0", ".", "1", "0", "4", ".", "0", "\n",
           "u", "v", "i", "c", "o", "r", "n", "[", "s", "t", "a", "n", "d", "a", "r", "d", "]", ">", "=", "0", ".", "2", "4", ".", "0", "\n">> >>
    >>

\* app/templates/fastapi_core.py BASE_TEMPLATE
fastapi_core_BASE_TEMPLATE ==
    <<
      << <<"app", "__init__.py">>, <<>> >>,
      << <<"app", "main.py">>, <<"#fbd91d">> >>,
      << <<"app", "config", "__init__.py">>, <<"#0a007e">> >>,
      << <<"app", "config", "settings.py">>, <<"#595da4", "{{name}}", "#efcaea">> >>,
      << <<"app", "core", "__init__.py">>, <<"#5f2f92">> >>,
      << <<"app", "core", "logger.py">>, <<"#1a9e8c">> >>,
      << <<"app", "core", "exceptions.py">>, <<"#8c4990">> >>,
      << <<"app", "utils", "__init__.py">>, <<"#55eca4">> >>,
      << <<"app", "utils", "constants.py">>, <<"#5da202", "{{name}}", "#3bd935">> >>,
      << <<"app", "utils", "helpers.py">>, <<"#1e69a1">> >>,
      << <<"app", "api", "__init__.py">>, <<"#84ab38">> >>,
      << <<"app", "api", "routes.py">>, <<"#790975">> >>,
      << <<"app", "schemas", "__init__.py">>, <<"#507593">> >>,
      << <<"app", "schemas", "item.py">>, <<"#062e1f">> >>,
      << <<"app", "services", "__init__.py">>, <<"#9d00e4">> >>,
      << <<"app", "services", "item_service.py">>, <<"#f9213f">> >>,
      << <<"app", "models", "__init__.py">>, <<>> >>,
      << <<"requirements.txt">>,
         <<"f", "a", "s", "t", "a", "p", "i", ">", "=", "0", ".", "1", "0", "4", ".", "0", "\n",
           "u", "v", "i", "c", "o", "r", "n", "[", "s", "t", "a", "n", "d", "a", "r", "d", "]", ">", "=", "0", ".", "2", "4", ".", "0", "\n",
           "p", "y", "d", "a", "n", "t", "i", "c", ">", "=", "2", ".", "0", ".", "0", "\n",
           "p", "y", "d", "a", "n", "t", "i", "c", "-", "s", "e", "t", "t", "i", "n", "g", "s", ">", "=", "2", ".", "0", ".", "0", "\n",
           "p", "y", "t", "h", "o", "n", "-", "d", "o", "t", "e", "n", "v", ">", "=", "1", ".", "0", ".", "0", "\n">> >>,
      << <<".env">>, <<"#c3c2b7", "{{name}}", "#3510f4">> >>,
      << <<"run.py">>, <<"#38a7b7">> >>,
      << <<"README.md">>, <<"#a0b2aa", "{{name}}", "#2620f1", "{{name}}", "#2c4c8c", "{{name}}", "#317b06">> >>,
      << <<".gitignore">>, <<"#948b62">> >>
    >>

\* app/templates/fastapi_core.py FEATURES['PostgreSQL']
fastapi_core_FEATURE_PostgreSQL ==
    <<
      << <<"app", "db", "__init__.py">>, <<"#e0e354">> >>,
      << <<"app", "db", "database.py">>, <<"#4dc711">> >>,
      << <<"app", "models", "item_model.py">>, <<"#53d86a">> >>,
      << <<"requirements.txt">>,
         <<"f", "a", "s", "t", "a", "p", "i", ">", "=", "0", ".", "1", "0", "4", ".", "0", "\n",
           "u", "v", "i", "c", "o", "r", "n", "[", "s", "t", "a", "n", "d", "a", "r", "d", "]", ">", "=", "0", ".", "2", "4", ".", "0", "\n",
           "p", "y", "d", "a", "n", "t", "i", "c", ">", "=", "2", ".", "0", ".", "0", "\n",
           "p", "y", "d", "a", "n", "t", "i", "c", "-", "s", "e", "t", "t", "i", "n", "g", "s", ">", "=", "2", ".", "0", ".", "0", "\n",
           "p", "y", "t", "h", "o", "n", "-", "d", "o", "t", "e", "n", "v", ">", "=", "1", ".", "0", ".", "0", "\n",
           "s", "q", "l", "a", "l", "c", "h", "e", "m", "y", ">", "=", "2", ".", "0", ".", "0", "\n",
           "p", "s", "y", "c", "o", "p", "g", "2", "-", "b", "i", "n", "a", "r", "y", ">", "=", "2", ".", "9", ".", "0", "\n">> >>,
      << <<".env">>, <<"#c3c2b7", "{{name}}", "#5d637d", "postgresql://", "#d7f6f4">> >>
    >>

\* app/templates/fastapi_core.py FEATURES['MongoDB']
fastapi_core_FEATURE_MongoDB ==
    <<
      << <<"app", "db", "__init__.py">>, <<"#e0e354">> >>,
      << <<"app", "db", "database.py">>, <<"#af7d93">> >>,
      << <<"requirements.txt">>,
         <<"f", "a", "s", "t", "a", "p", "i", ">", "=", "0", ".", "1", "0", "4", ".", "0", "\n",
           "u", "v", "i", "c", "o", "r", "n", "[", "s", "t", "a", "n", "d", "a", "r", "d", "]", ">", "=", "0", ".", "2", "4", ".", "0", "\n",
           "p", "y", "d", "a", "n", "t", "i", "c", ">", "=", "2", ".", "0", ".", "0", "\n",
           "p", "y", "d", "a", "n", "t", "i", "c", "-", "s", "e", "t", "t", "i", "n", "g", "s", ">", "=", "2", ".", "0", ".", "0", "\n",
           "p", "y", "t", "h", "o", "n", "-", "d", "o", "t", "e", "n", "v", ">", "=", "1", ".", "0", ".", "0", "\n",
           "p", "y", "m", "o", "n", "g", "o", ">", "=", "4", ".", "5", ".", "0", "\n",
           "m", "o", "t", "o", "r", ">", "=", "3", ".", "3", ".", "0", "\n">> >>,
      << <<".env">>, <<"#c3c2b7", "{{name}}", "#eaaac4", "mongodb://", "#07d95d", "{{name}}", "#90cbb2">> >>
    >>

\* app/templates/mobile_backend.py BASE_TEMPLATE
mobile_backend_BASE_TEMPLATE ==
    <<
      << <<"app", "__init__.py">>, <<>> >>,
      << <<"app", "main.py">>, <<"#e5e410">> >>,
      << <<"app", "api", "__init__.py">>, <<"#ab777e">> >>,
      << <<"app", "api", "users.py">>, <<"#221351">> >>,
      << <<"app", "api", "auth.py">>, <<"#784aa4">> >>,
      << <<"app", "models", "__init__.py">>, <<>> >>,
      << <<"app", "models", "user.py">>, <<"#e01b7e">> >>,
      << <<"app", "services", "__init__.py">>, <<>> >>,
      << <<"app", "services", "user_service.py">>, <<"#2d1927">> >>,
      << <<"app", "config", "__init__.py">>, <<>> >>,
      << <<"app", "config", "settings.py">>, <<"#5c11fa", "{{name}}", "#ab43de">> >>,
      << <<"app", "core", "__init__.py">>, <<>> >>,
      << <<"app", "core", "logger.py">>, <<"#102229">> >>,
      << <<"app", "core", "exceptions.py">>, <<"#7b8eb7">> >>,
      << <<"app", "utils", "__init__.py">>, <<>> >>,
      << <<"app", "utils", "constants.py">>, <<"#900eb8", "{{name}}", "#d1b18c">> >>,
      << <<"app", "utils", "helpers.py">>, <<"#480d1e">> >>,
      << <<"requirements.txt">>,
         <<"f", "a", "s", "t", "a", "p", "i", "=", "=", "0", ".", "1", "0", "4", ".", "1", "\n",
           "u", "v", "i", "c", "o", "r", "n", "[", "s", "t", "a", "n", "d", "a", "r", "d", "]", "=", "=", "0", ".", "2", "4", ".", "0", "\n",
           "p", "y", "d", "a", "n", "t", "i", "c", "=", "=", "2", ".", "5", ".", "0", "\n",
           "p", "y", "d", "a", "n", "t", "i", "c", "-", "s", "e", "t", "t", "i", "n", "g", "s", "=", "=", "2", ".", "1", ".", "0", "\n",
           "p", "y", "t", "h", "o", "n", "-", "d", "o", "t", "e", "n", "v", "=", "=", "1", ".", "0", ".", "0", "\n",
           "p", "y", "t", "h", "o", "n", "-", "m", "u", "l", "t", "i", "p", "a", "r", "t", "=", "=", "0", ".", "0", ".", "6", "\n",
           "e", "m", "a", "i", "l", "-", "v", "a", "l", "i", "d", "a", "t", "o", "r", "=", "=", "2", ".", "1", ".", "0", "\n">> >>,
      << <<".env">>, <<"#c3c2b7", "{{name}}", "#6fdad9">> >>,
      << <<"run.py">>, <<"#1c2ec6">> >>,
      << <<"README.md">>, <<"#a0b2aa", "{{name}}", "#e7914e", "{{name}}", "#642f85", "{{name}}", "#98c9da", "{{name}}", "#e260ed">> >>,
      << <<".gitignore">>, <<"#f49f24">> >>
    >>

\* app/templates/mobile_backend.py FEATURES['Push Notifications']
mobile_backend_FEATURE_PushNotifications ==
    <<
      << <<"app", "services", "notification_service.py">>, <<"#f772f6">> >>,
      << <<"requirements.txt">>,
         <<"f", "a", "s", "t", "a", "p", "i", "=", "=", "0", ".", "1", "0", "4", ".", "1", "\n",
           "u", "v", "i", "c", "o", "r", "n", "[", "s", "t", "a", "n", "d", "a", "r", "d", "]", "=", "=", "0", ".", "2", "4", ".", "0", "\n",
           "p", "y", "d", "a", "n", "t", "i", "c", "=", "=", "2", ".", "5", ".", "0", "\n",
           "p", "y", "d", "a", "n", "t", "i", "c", "-", "s", "e", "t", "t", "i", "n", "g", "s", "=", "=", "2", ".", "1", ".", "0", "\n",
           "p", "y", "t", "h", "o", "n", "-", "d", "o", "t", "e", "n", "v", "=", "=", "1", ".", "0", ".", "0", "\n",
           "p", "y", "t", "h", "o", "n", "-", "m", "u", "l", "t", "i", "p", "a", "r", "t", "=", "=", "0", ".", "0", ".", "6", "\n",
           "e", "m", "a", "i", "l", "-", "v", "a", "l", "i", "d", "a", "t", "o", "r", "=", "=", "2", ".", "1", ".", "0", "\n",
           "h", "t", "t", "p", "x", "=", "=", "0", ".", "2", "5", ".", "2", "\n">> >>
    >>

\* app/templates/mobile_backend.py FEATURES['Image Processing']
mobile_backend_FEATURE_ImageProcessing ==
    <<
      << <<"app", "services", "image_service.py">>, <<"#fbae7f">> >>,
      << <<"requirements.txt">>,
         <<"f", "a", "s", "t", "a", "p", "i", "=", "=", "0", ".", "1", "0", "4", ".", "1", "\n",
           "u", "v", "i", "c", "o", "r", "n", "[", "s", "t", "a", "n", "d", "a", "r", "d", "]", "=", "=", "0", ".", "2", "4", ".", "0", "\n",
           "p", "y", "d", "a", "n", "t", "i", "c", "=", "=", "2", ".", "5", ".", "0", "\n",
           "p", "y", "d", "a", "n", "t", "i", "c", "-", "s", "e", "t", "t", "i", "n", "g", "s", "=", "=", "2", ".", "1", ".", "0", "\n",
           "p", "y", "t", "h", "o", "n", "-", "d", "o", "t", "e", "n", "v", "=", "=", "1", ".", "0", ".", "0", "\n",
           "p", "y", "t", "h", "o", "n", "-", "m", "u", "l", "t", "i", "p", "a", "r", "t", "=", "=", "0", ".", "0", ".", "6", "\n",
           "e", "m", "a", "i", "l", "-", "v", "a", "l", "i", "d", "a", "t", "o", "r", "=", "=", "2", ".", "1", ".", "0", "\n",
           "P", "i", "l", "l", "o", "w", "=", "=", "1", "0", ".", "1", ".", "0", "\n">> >>
    >>

\* app/templates/mobile_backend.py FEATURES['Rate Limiting']
mobile_backend_FEATURE_RateLimiting ==
    <<
      << <<"app", "middleware", "rate_limit.py">>, <<"#d6255b">> >>
    >>

\* app/templates/mobile_backend.py FEATURES['File Storage']
mobile_backend_FEATURE_FileStorage ==
    <<
      << <<"app", "services", "storage_service.py">>, <<"#d9f143">> >>
    >>

\* app/templates/nodejs_app.py FEATURES: feature name -> its fragment (a dict object)
nodejs_app_FEATURES ==
    <<
      << "API Integration", "nodejs_app.FEATURES['API Integration']" >>,
      << "WebSocket", "nodejs_app.FEATURES['WebSocket']" >>
    >>

\* app/templates/desktop_app.py FEATURES: feature name -> its fragment (a dict object)
desktop_app_FEATURES ==
    <<
      << "API Integration", "desktop_app.FEATURES['API Integration']" >>
    >>

\* app/templates/fastapi_core.py FEATURES: feature name -> its fragment (a dict object)
fastapi_core_FEATURES ==
    <<
      << "PostgreSQL", "fastapi_core.FEATURES['PostgreSQL']" >>,
      << "MongoDB", "fastapi_core.FEATURES['MongoDB']" >>
    >>

\* app/templates/mobile_backend.py FEATURES: feature name -> its fragment (a dict object)
mobile_backend_FEATURES ==
    <<
      << "Push Notifications", "mobile_backend.FEATURES['Push Notifications']" >>,
      << "Image Processing", "mobile_backend.FEATURES['Image Processing']" >>,
      << "Rate Limiting", "mobile_backend.FEATURES['Rate Limiting']" >>,
      << "File Storage", "mobile_backend.FEATURES['File Storage']" >>
    >>

\* app/templates/python_core.py is imported by generate_project but is not among
\* the sources at hand: the generic backend's base FileSet, with the files that
\* create_setup_md's instructions for it name
python_core_BASE_TEMPLATE ==
    <<
      << <<"README.md">>, <<"#python_core/README.md", "{{name}}">> >>,
      << <<"requirements.txt">>, <<"p", "y", "t", "h", "o", "n", "-", "d", "o", "t", "e", "n", "v", "\n">> >>,
      << <<"run.py">>, <<"#python_core/run.py">> >>
    >>

\* the dict objects that exist once app.templates is imported
CatalogHeap ==
    ("react_web.BASE_TEMPLATE" :> react_web_BASE_TEMPLATE) @@
    ("nodejs_app.BASE_TEMPLATE" :> nodejs_app_BASE_TEMPLATE) @@
    ("nodejs_app.FEATURES['API Integration']" :> nodejs_app_FEATURE_APIIntegration) @@
    ("nodejs_app.FEATURES['WebSocket']" :> nodejs_app_FEATURE_WebSocket) @@
    ("desktop_app.BASE_TEMPLATE" :> desktop_app_BASE_TEMPLATE) @@
    ("desktop_app.FEATURES['API Integration']" :> desktop_app_FEATURE_APIIntegration) @@
    ("fastapi_core.BASE_TEMPLATE" :> fastapi_core_BASE_TEMPLATE) @@
    ("fastapi_core.FEATURES['PostgreSQL']" :> fastapi_core_FEATURE_PostgreSQL) @@
    ("fastapi_core.FEATURES['MongoDB']" :> fastapi_core_FEATURE_MongoDB) @@
    ("mobile_backend.BASE_TEMPLATE" :> mobile_backend_BASE_TEMPLATE) @@
    ("mobile_backend.FEATURES['Push Notifications']" :> mobile_backend_FEATURE_PushNotifications) @@
    ("mobile_backend.FEATURES['Image Processing']" :> mobile_backend_FEATURE_ImageProcessing) @@
    ("mobile_backend.FEATURES['Rate Limiting']" :> mobile_backend_FEATURE_RateLimiting) @@
    ("mobile_backend.FEATURES['File Storage']" :> mobile_backend_FEATURE_FileStorage) @@
    ("python_core.BASE_TEMPLATE" :> python_core_BASE_TEMPLATE)

CatalogIds == DOMAIN CatalogHeap

-----------------------------------------------------------------------------
(* Paths and the filesystem.  A path is the sequence of its components; a  *)
(* filesystem is [dirs: the directories, files: path -> content].          *)

IsPrefix(p, q) == Len(p) <= Len(q) /\ SubSeq(q, 1, Len(p)) = p

\* base / rel as the operating system resolves it: "" and "." name the
\* directory itself, ".." its parent
RECURSIVE PathJoin(_, _)
PathJoin(base, rel) ==
    IF rel = <<>> THEN base
    ELSE IF Head(rel) \in {"", "."} THEN PathJoin(base, Tail(rel))
    ELSE IF Head(rel) = ".."
         THEN PathJoin(IF base = <<>> THEN base ELSE SubSeq(base, 1, Len(base) - 1),
                       Tail(rel))
    ELSE PathJoin(Append(base, Head(rel)), Tail(rel))

Parent(p) == SubSeq(p, 1, Len(p) - 1)

\* p.exists()
Exists(fs, p) == p \in fs.dirs \/ p \in DOMAIN fs.files

\* a slip: only the files directly in p are removed
Rmtree_top_only(fs, p) ==
    [dirs  |-> fs.dirs,
     files |-> [f \in {g \in DOMAIN fs.files : ~(IsPrefix(p, g) /\ Len(g) = Len(p) + 1)}
                   |-> fs.files[f]]]

\* a slip: everything in the directory that holds p is removed
Rmtree_output_dir(fs, p) ==
    [dirs  |-> {d \in fs.dirs : ~(IsPrefix(Parent(p), d) /\ d # Parent(p))},
     files |-> [f \in {g \in DOMAIN fs.files : ~IsPrefix(Parent(p), g)} |-> fs.files[f]]]

\* shutil.rmtree(p)
Rmtree(fs, p) ==
    [dirs  |-> {d \in fs.dirs : ~IsPrefix(p, d)},
     files |-> [f \in {g \in DOMAIN fs.files : ~IsPrefix(p, g)} |-> fs.files[f]]]

\* p.mkdir(parents=True, exist_ok=True)
Mkdir(fs, p) ==
    [dirs  |-> fs.dirs \cup {SubSeq(p, 1, n) : n \in 0..Len(p)},
     files |-> fs.files]

\* p.write_text(content)
WriteText(fs, p, content) ==
    [dirs |-> fs.dirs, files |-> (p :> content) @@ fs.files]

\* p.write_text raises FileNotFoundError: the directory of p is not there
WriteTextRaises(fs, p) == Parent(p) \notin fs.dirs

-----------------------------------------------------------------------------
(* Requests                                                                *)

\* a project name is the sequence of the pieces between its "/" characters
\* ("" is the empty sequence); the text of each piece:
PieceChars ==
    ("demo" :> <<"d", "e", "m", "o">>) @@
    ("my-app_2" :> <<"m", "y", "-", "a", "p", "p", "_", "2">>) @@
    ("out" :> <<"o", "u", "t">>) @@
    (".." :> <<".", ".">>)

\* the name as the text put into file contents
RECURSIVE NameText(_)
NameText(name) ==
    IF name = <<>> THEN <<>>
    ELSE IF Len(name) = 1 THEN <<name[1]>>
    ELSE <<name[1], "/">> \o NameText(Tail(name))

\* project_path.name
PathName(output_dir, name) ==
    IF name = <<>> THEN output_dir[Len(output_dir)] ELSE name[Len(name)]

None == "None"

\* config.get(key, default)
ConfigGet(config, key, default) ==
    IF key \in DOMAIN config THEN config[key] ELSE default

\* the truth value Python gives a str-or-None option value
Truthy(v) == v \notin {None, ""}

React == <<"R", "e", "a", "c", "t">>
NodeJs == <<"N", "o", "d", "e", ".", "j", "s">>
Desktop == <<"D", "e", "s", "k", "t", "o", "p">>
FastAPI == <<"F", "a", "s", "t", "A", "P", "I">>
Mobile == <<"M", "o", "b", "i", "l", "e">>

-----------------------------------------------------------------------------
(* generate_project: composing template_files                              *)

\* the designated manifest path
RequirementsTxt == <<"requirements.txt">>

\* for file_path, content in feature_files.items(): template_files[file_path] = content
RECURSIVE OverwriteItems(_, _, _, _)
OverwriteItems(h, ref, feature_files, i) ==
    IF i > Len(h[feature_files]) THEN h
    ELSE LET item == h[feature_files][i]
         IN  OverwriteItems(StoreItem(h, ref, item[1], item[2]), ref, feature_files, i + 1)

\* the same loop without the test for requirements.txt: the fragment's
\* manifest replaces the one that is there
MergeItems_overwrite(h, ref, feature_files, i) ==
    OverwriteItems(h, ref, feature_files, i)

\* the same loop with requirements.txt merged instead of overwritten
RECURSIVE MergeItems(_, _, _, _)
MergeItems(h, ref, feature_files, i) ==
    IF i > Len(h[feature_files]) THEN h
    ELSE LET item == h[feature_files][i]
             content ==
                 IF item[1] = RequirementsTxt
                 THEN merge_requirements(DictGet(h[ref], item[1], <<>>), item[2])
                 ELSE item[2]
         IN  MergeItems(StoreItem(h, ref, item[1], content), ref, feature_files, i + 1)

\* a slip: a feature name the category does not know is looked up all the same
\* and some fragment of the category is overlaid
RECURSIVE AddFeatures_unchecked(_, _, _, _, _)
AddFeatures_unchecked(h, ref, FEATURES, features, merging) ==
    IF features = <<>> THEN h
    ELSE LET feature_files == DictGet(FEATURES, Head(features), FEATURES[1][2])
             h2 == IF merging THEN MergeItems(h, ref, feature_files, 1)
                   ELSE OverwriteItems(h, ref, feature_files, 1)
         IN  AddFeatures_unchecked(h2, ref, FEATURES, Tail(features), merging)

\* a slip: the features are applied last to first
RECURSIVE AddFeatures_reversed(_, _, _, _, _)
AddFeatures_reversed(h, ref, FEATURES, features, merging) ==
    IF features = <<>> THEN h
    ELSE LET last == features[Len(features)]
             h2 == IF ~DictHas(FEATURES, last) THEN h
                   ELSE IF merging
                        THEN MergeItems(h, ref, DictGet(FEATURES, last, None), 1)
                        ELSE OverwriteItems(h, ref, DictGet(FEATURES, last, None), 1)
         IN  AddFeatures_reversed(h2, ref, FEATURES,
                                  SubSeq(features, 1, Len(features) - 1), merging)

\* for feature_name in config.get("features", []):
\*     if feature_name in FEATURES: overlay FEATURES[feature_name]
RECURSIVE AddFeatures(_, _, _, _, _)
AddFeatures(h, ref, FEATURES, features, merging) ==
    IF features = <<>> THEN h
    ELSE LET feature_name == Head(features)
             h2 == IF ~DictHas(FEATURES, feature_name) THEN h
                   ELSE IF merging
                        THEN MergeItems(h, ref, DictGet(FEATURES, feature_name, None), 1)
                        ELSE OverwriteItems(h, ref, DictGet(FEATURES, feature_name, None), 1)
         IN  AddFeatures(h2, ref, FEATURES, Tail(features), merging)

\* one branch of the if/elif chain: copy the base, overlay the features
Branch(h, new, base, base_dir, FEATURES, features, merging) ==
    LET copy == DictCopy(h, base, new)
    IN  [heap |-> AddFeatures(copy.heap, copy.ref, FEATURES, features, merging),
         template_files |-> copy.ref,
         base_dir |-> base_dir]

NoFeatures == <<>>

\* a slip: the FastAPI test is made before the Desktop test
SelectTemplate_fastapi_first(h, new, template, config) ==
    LET features == ConfigGet(config, "features", <<>>)
    IN  IF Contains(React, template)
        THEN Branch(h, new, "react_web.BASE_TEMPLATE", "src", NoFeatures, <<>>, FALSE)
        ELSE IF Contains(NodeJs, template)
        THEN Branch(h, new, "nodejs_app.BASE_TEMPLATE", "src",
                    nodejs_app_FEATURES, features, FALSE)
        ELSE IF Contains(FastAPI, template)
        THEN Branch(h, new, "fastapi_core.BASE_TEMPLATE", "app",
                    fastapi_core_FEATURES, features, TRUE)
        ELSE IF Contains(Desktop, template)
        THEN Branch(h, new, "desktop_app.BASE_TEMPLATE", "app",
                    desktop_app_FEATURES, features, TRUE)
        ELSE IF Contains(Mobile, template)
        THEN Branch(h, new, "mobile_backend.BASE_TEMPLATE", "app",
                    mobile_backend_FEATURES, features, TRUE)
        ELSE Branch(h, new, "python_core.BASE_TEMPLATE", "app", NoFeatures, <<>>, FALSE)

\* a slip: a name with no keyword selects no template and the call fails
SelectTemplate_no_default(h, new, template, config) ==
    LET features == ConfigGet(config, "features", <<>>)
    IN  IF Contains(React, template)
        THEN Branch(h, new, "react_web.BASE_TEMPLATE", "src", NoFeatures, <<>>, FALSE)
        ELSE IF Contains(NodeJs, template)
        THEN Branch(h, new, "nodejs_app.BASE_TEMPLATE", "src",
                    nodejs_app_FEATURES, features, FALSE)
        ELSE IF Contains(Desktop, template)
        THEN Branch(h, new, "desktop_app.BASE_TEMPLATE", "app",
                    desktop_app_FEATURES, features, TRUE)
        ELSE IF Contains(FastAPI, template)
        THEN Branch(h, new, "fastapi_core.BASE_TEMPLATE", "app",
                    fastapi_core_FEATURES, features, TRUE)
        ELSE IF Contains(Mobile, template)
        THEN Branch(h, new, "mobile_backend.BASE_TEMPLATE", "app",
                    mobile_backend_FEATURES, features, TRUE)
        ELSE [heap |-> h, template_files |-> None, base_dir |-> None]

\* the if/elif chain over the template name
SelectTemplate(h, new, template, config) ==
    LET features == ConfigGet(config, "features", <<>>)
    IN  IF Contains(React, template)
        THEN Branch(h, new, "react_web.BASE_TEMPLATE", "src", NoFeatures, <<>>, FALSE)
        ELSE IF Contains(NodeJs, template)
        THEN Branch(h, new, "nodejs_app.BASE_TEMPLATE", "src",
                    nodejs_app_FEATURES, features, FALSE)
        ELSE IF Contains(Desktop, template)
        THEN Branch(h, new, "desktop_app.BASE_TEMPLATE", "app",
                    desktop_app_FEATURES, features, TRUE)
        ELSE IF Contains(FastAPI, template)
        THEN Branch(h, new, "fastapi_core.BASE_TEMPLATE", "app",
                    fastapi_core_FEATURES, features, TRUE)
        ELSE IF Contains(Mobile, template)
        THEN Branch(h, new, "mobile_backend.BASE_TEMPLATE", "app",
                    mobile_backend_FEATURES, features, TRUE)
        ELSE Branch(h, new, "python_core.BASE_TEMPLATE", "app", NoFeatures, <<>>, FALSE)

-----------------------------------------------------------------------------
(* generate_project: the helpers that write                                *)

\* create_architecture_folder(project_path, template)
create_architecture_folder(fs, project_path, template) ==
    LET arch_path == Append(project_path, "architecture")
        fs1 == Mkdir(fs, arch_path)
        fs2 == WriteText(fs1, Append(arch_path, "architecture.drawio"), <<"#c983bd">>)
    IN  WriteText(fs2, Append(arch_path, "README.md"), <<"#203619">>)

\* add_logger(project_path, base_dir)
add_logger(fs, project_path, base_dir) ==
    LET logger_path == project_path \o <<base_dir, "core">>
        fs1 == Mkdir(fs, logger_path)
        fs2 == WriteText(fs1, Append(logger_path, "__init__.py"), <<"#5f2f92">>)
    IN  WriteText(fs2, Append(logger_path, "logger.py"), <<"#813cb6">>)

\* add_exception_handler without its test of the template
add_exception_handler_any_template(fs, project_path, template, base_dir) ==
    LET exceptions_path == project_path \o <<base_dir, "core", "exceptions.py">>
        fs1 == Mkdir(fs, Parent(exceptions_path))
    IN  WriteText(fs1, exceptions_path, <<"#7d9b3a">>)

\* add_exception_handler(project_path, template, base_dir)
add_exception_handler(fs, project_path, template, base_dir) ==
    IF Contains(React, template) \/ Contains(NodeJs, template)
    THEN fs
    ELSE LET exceptions_path == project_path \o <<base_dir, "core", "exceptions.py">>
             fs1 == Mkdir(fs, Parent(exceptions_path))
         IN  WriteText(fs1, exceptions_path, <<"#7d9b3a">>)

\* add_database_config that leaves an .env entry the FileSet already has
add_database_config_keep_env(h, db_type, template_files, base_dir) ==
    LET had == DictHas(h[template_files], <<".env">>)
        env == IF db_type = "postgresql"
               THEN <<"#cc2049", "postgresql://", "#df8de7", "{{name}}", "#2cff88">>
               ELSE <<"#7913d2", "mongodb://", "#07d95d", "{{name}}",
                      "#724c55", "{{name}}", "#2cff88">>
        module == IF db_type = "postgresql"
                  THEN <<"#9b85ad", "postgresql://", "#f0848c">>
                  ELSE <<"#0ca9cd", "mongodb://", "#93ae04", "{{name}}", "#94dd0f">>
    IN  IF db_type \notin {"postgresql", "mongodb"} THEN h
        ELSE LET h1 == IF had THEN h ELSE StoreItem(h, template_files, <<".env">>, env)
                 h2 == StoreItem(h1, template_files, <<base_dir, "db", "database.py">>, module)
             IN  StoreItem(h2, template_files, <<base_dir, "db", "__init__.py">>,
                           <<"#e0e354">>)

\* add_database_config(project_path, db_type, template_files, base_dir):
\* it writes nothing, it sets three entries of template_files
add_database_config(h, db_type, template_files, base_dir) ==
    IF db_type = "postgresql"
    THEN LET h1 == StoreItem(h, template_files, <<".env">>,
                             <<"#cc2049", "postgresql://", "#df8de7", "{{name}}", "#2cff88">>)
             h2 == StoreItem(h1, template_files, <<base_dir, "db", "database.py">>,
                             <<"#9b85ad", "postgresql://", "#f0848c">>)
         IN  StoreItem(h2, template_files, <<base_dir, "db", "__init__.py">>, <<"#e0e354">>)
    ELSE IF db_type = "mongodb"
    THEN LET h1 == StoreItem(h, template_files, <<".env">>,
                             <<"#7913d2", "mongodb://", "#07d95d", "{{name}}",
                               "#724c55", "{{name}}", "#2cff88">>)
             h2 == StoreItem(h1, template_files, <<base_dir, "db", "database.py">>,
                             <<"#0ca9cd", "mongodb://", "#93ae04", "{{name}}", "#94dd0f">>)
         IN  StoreItem(h2, template_files, <<base_dir, "db", "__init__.py">>, <<"#e0e354">>)
    ELSE h

PlaceholderToken == "{{name}}"

\* content.replace("{{name}}", name, 1): the first occurrence only
Replace_first_only(content, name) ==
    LET hits == {i \in 1..Len(content) : content[i] = PlaceholderToken}
    IN  IF hits = {} THEN content
        ELSE LET first == CHOOSE i \in hits : \A j \in hits : i <= j
             IN  SubSeq(content, 1, first - 1) \o NameText(name)
                 \o SubSeq(content, first + 1, Len(content))

\* content.replace("{{name}}", name)
RECURSIVE Replace(_, _)
Replace(content, name) ==
    IF content = <<>> THEN <<>>
    ELSE (IF Head(content) = PlaceholderToken THEN NameText(name) ELSE <<Head(content)>>)
         \o Replace(Tail(content), name)

\* how far the three git commands get
GitOutcomes == {"init fails", "add fails", "commit fails", "committed"}

\* init_git_repo(project_path): git init, git add ., git commit; any failure is
\* logged and swallowed
init_git_repo(fs, project_path, outcome) ==
    LET git_dir == Append(project_path, ".git")
        fs1 == WriteText(Mkdir(fs, git_dir), Append(git_dir, "HEAD"), <<"#git/HEAD">>)
        fs2 == WriteText(fs1, Append(git_dir, "index"), <<"#git/index">>)
        fs3 == WriteText(fs2, Append(git_dir, "COMMIT_EDITMSG"), <<"Initial commit">>)
    IN  CASE outcome = "init fails" -> fs
          [] outcome = "add fails" -> fs1
          [] outcome = "commit fails" -> fs2
          [] outcome = "committed" -> fs3

\* the .gitignore texts of the catalog; each has the pattern ".env", and none
\* has a pattern that matches another path generate_project writes
GitignoresWithEnv ==
    {DictGet(base, <<".gitignore">>, None) :
        base \in {react_web_BASE_TEMPLATE, nodejs_app_BASE_TEMPLATE,
                  desktop_app_BASE_TEMPLATE, fastapi_core_BASE_TEMPLATE,
                  mobile_backend_BASE_TEMPLATE}}

\* the .gitignore in project_path excludes the path rel (relative to it)
GitIgnored(fs, project_path, rel) ==
    LET gitignore == Append(project_path, ".gitignore")
    IN  /\ gitignore \in DOMAIN fs.files
        /\ fs.files[gitignore] \in GitignoresWithEnv
        /\ \E i \in 1..Len(rel) : rel[i] = ".env"

\* what "git add ." stages and "git commit" records: the files below
\* project_path at that moment, by their relative paths, but for the
\* repository's own and the ignored ones
Tracked(fs, project_path) ==
    {SubSeq(f, Len(project_path) + 1, Len(f)) :
        f \in {g \in DOMAIN fs.files :
                  /\ IsPrefix(project_path, g)
                  /\ g[Len(project_path) + 1] # ".git"
                  /\ ~GitIgnored(fs, project_path,
                                 SubSeq(g, Len(project_path) + 1, Len(g)))}}

\* init_git_repo without its try/except: a failing command raises
GitRaises_on_failure(outcome) == outcome # "committed"

\* whether init_git_repo lets an exception out: "except Exception" takes the
\* CalledProcessError of a failing command (and the OSError of a missing git)
\* and logs a warning
GitRaises(outcome) == FALSE

\* str.upper() of a database_type
Upper(db_type) ==
    CASE db_type = "postgresql" -> "POSTGRESQL"
      [] db_type = "mongodb" -> "MONGODB"
      [] db_type = "sqlite" -> "SQLITE"

\* the text create_setup_md builds
SetupMdContent(project_name, template, config) ==
    LET features == ConfigGet(config, "features", <<>>)
        api == \E i \in 1..Len(features) : features[i] = "API Integration"
        head == <<"#setup/Project: ">> \o <<project_name>> \o <<"#setup/Template: ">>
                \o template \o <<"#setup/Quick Start">>
        body ==
            IF Contains(React, template) THEN <<"#setup/react">>
            ELSE IF Contains(NodeJs, template)
            THEN <<"#setup/node">> \o (IF api THEN <<"#setup/node/api">> ELSE <<>>)
            ELSE IF Contains(Desktop, template)
            THEN <<"#setup/desktop/1-3 APP_NAME=", "{{name}}", "#setup/desktop/4">>
                 \o (IF api THEN <<"#setup/desktop/5 api">> ELSE <<>>)
                 \o <<"#setup/desktop/features">>
                 \o (IF ConfigGet(config, "enable_logger", FALSE)
                     THEN <<"#setup/desktop/logger">> ELSE <<>>)
                 \o (IF ConfigGet(config, "enable_exception_handler", FALSE)
                     THEN <<"#setup/desktop/exception handler">> ELSE <<>>)
                 \o (IF api THEN <<"#setup/desktop/api">> ELSE <<>>)
            ELSE <<"#setup/python">>
        database ==
            IF Truthy(ConfigGet(config, "database_type", None))
            THEN <<"#setup/Database: ", Upper(config["database_type"])>>
            ELSE <<>>
    IN  head \o body \o database \o <<"#setup/tail">>

\* create_setup_md(project_path, template, config)
create_setup_md(fs, project_path, project_name, template, config) ==
    WriteText(fs, Append(project_path, "SETUP.md"),
              SetupMdContent(project_name, template, config))

-----------------------------------------------------------------------------
(* Failing file operations.  generate_project has no try/except of its    *)
(* own: an OSError of rmtree, mkdir or write_text leaves the function at  *)
(* the statement that raised it.                                          *)

\* generate_project with the write loop's body in a try/except that logs and
\* goes on
OnError_skip_write(step, next) == IF step = "write" THEN next ELSE "raised"

\* generate_project with the preparation of the directory in a try/except that
\* logs and goes on
OnError_skip_prepare(step, next) ==
    IF step \in {"rmtree", "mkdir"} THEN next ELSE "raised"

\* where a call is after the statement `step` raised: no handler, it is out of
\* the function (next is the statement that would have followed)
OnError(step, next) == "raised"

\* how far a failing round of the write loop gets: full_path.parent.mkdir
\* raises; or write_text cannot open the file; or it opens (and so creates or
\* empties) the file and cannot write to it
WriteFailures == {"mkdir fails", "open fails", "write fails"}

\* the disk after a round of the write loop that fails
WriteFailed(fs, full_path, how) ==
    CASE how = "mkdir fails" -> fs
      [] how = "open fails" -> Mkdir(fs, Parent(full_path))
      [] how = "write fails" -> WriteText(Mkdir(fs, Parent(full_path)), full_path, <<>>)

\* the disk after shutil.rmtree(p) that fails: the files in `gone` are removed
\* already, the directories are still there
RmtreeFailed(fs, p, gone) ==
    [dirs |-> fs.dirs, files |-> [f \in DOMAIN fs.files \ gone |-> fs.files[f]]]

-----------------------------------------------------------------------------
(* The main window (app/ui/main_window.py): the name field and Generate    *)

\* longest text drawn for the name field
MaxNameLen == 2

\* the characters drawn for the name field: letters, a digit, the two marks
\* the handler allows, a blank, two marks it refuses, and a letter outside
\* ASCII ("U+00E9" stands for the one character e with acute accent)
UiChars == {"a", "Z", "7", "-", "_", " ", "/", ".", "U+00E9"}

\* str.isalnum() on the characters of the texts drawn: the letters and digits
\* among them; it follows Unicode, where U+00E9 is a letter
IsAlnum(ch) ==
    ch \in {"a", "d", "e", "m", "o", "p", "t", "u", "y", "Z", "2", "7", "U+00E9"}

\* all(c.isalnum() or c in '-_' for c in text)
AllAlnumOrMark(text) == \A i \in 1..Len(text) : IsAlnum(text[i]) \/ text[i] \in {"-", "_"}

\* validate_project_name(text): the hint under the field
validate_project_name(text) ==
    IF text = <<>> THEN ""
    ELSE IF ~AllAlnumOrMark(text) THEN "Use only letters, numbers, hyphens, underscores"
    ELSE "Valid project name"

\* no GeneratorThread yet.  phase is where the thread is: "none", "started"
\* (start() was called), "running" (run() is in generate_project), "emitted"
\* (run() has emitted finished, the signal is queued for the main thread),
\* "handled" (on_generation_finished has run); emitted counts its
\* finished.emit calls, success and text are the arguments of the last one
NoThread ==
    [started |-> FALSE, template |-> <<>>, name |-> <<>>, output_dir |-> <<>>,
     config |-> [k \in {} |-> "None"],
     phase |-> "none", emitted |-> 0, success |-> FALSE, text |-> ""]

\* the window after __init__: an empty name field, the first template selected
UiIdle ==
    ui = [name_input |-> <<>>, name_hint |-> "", message |-> "none",
          generate_btn_enabled |-> TRUE, generator_thread |-> NoThread]

-----------------------------------------------------------------------------
(* generate_project, statement by statement.  call[c] holds the arguments  *)
(* and locals of call c; pc is the statement it is at.                     *)

FS == [dirs |-> dirs, files |-> files]

SetFS(fs) == dirs' = fs.dirs /\ files' = fs.files

\* the dict object that call c's template_files names after .copy()
TemplateFilesId(c) ==
    IF c = 1 THEN "call 1: template_files" ELSE "call 2: template_files"

\* lines 30-111: pick the template, copy its base, overlay the features,
\* compute project_path
Select(c) ==
    /\ call[c].pc = "select"
    /\ LET r == SelectTemplate(heap, TemplateFilesId(c), call[c].template, call[c].config)
       IN  /\ heap' = r.heap
           /\ call' = [call EXCEPT ![c] =
                  [@ EXCEPT !.template_files = r.template_files,
                            !.base_dir = r.base_dir,
                            !.project_path = PathJoin(call[c].output_dir, call[c].name),
                            !.pc = IF r.template_files = None THEN "raised" ELSE "remove"]]
    /\ UNCHANGED <<dirs, files, mergeVars, uiVars>>

\* lines 114-115: if project_path.exists(): shutil.rmtree(project_path)
RemoveExisting(c) ==
    /\ call[c].pc = "remove"
    /\ SetFS(IF Exists(FS, call[c].project_path)
             THEN Rmtree(FS, call[c].project_path)
             ELSE FS)
    /\ call' = [call EXCEPT ![c].pc = "mkdir"]
    /\ UNCHANGED <<heap, mergeVars, uiVars>>

\* line 118: project_path.mkdir(parents=True, exist_ok=True)
MakeProjectDir(c) ==
    /\ call[c].pc = "mkdir"
    /\ SetFS(Mkdir(FS, call[c].project_path))
    /\ call' = [call EXCEPT ![c].pc = "architecture"]
    /\ UNCHANGED <<heap, mergeVars, uiVars>>

\* line 122
CreateArchitectureFolder(c) ==
    /\ call[c].pc = "architecture"
    /\ SetFS(create_architecture_folder(FS, call[c].project_path, call[c].template))
    /\ call' = [call EXCEPT ![c].pc = "logger"]
    /\ UNCHANGED <<heap, mergeVars, uiVars>>

\* lines 125-126
AddLogger(c) ==
    /\ call[c].pc = "logger"
    /\ SetFS(IF /\ ConfigGet(call[c].config, "enable_logger", TRUE)
                /\ ~Contains(React, call[c].template)
                /\ ~Contains(NodeJs, call[c].template)
             THEN add_logger(FS, call[c].project_path, call[c].base_dir)
             ELSE FS)
    /\ call' = [call EXCEPT ![c].pc = "exception"]
    /\ UNCHANGED <<heap, mergeVars, uiVars>>

\* lines 129-130
AddExceptionHandler(c) ==
    /\ call[c].pc = "exception"
    /\ SetFS(IF ConfigGet(call[c].config, "enable_exception_handler", TRUE)
             THEN add_exception_handler(FS, call[c].project_path, call[c].template,
                                        call[c].base_dir)
             ELSE FS)
    /\ call' = [call EXCEPT ![c].pc = "database"]
    /\ UNCHANGED <<heap, mergeVars, uiVars>>

\* lines 133-134 with the entries set on a copy of template_files, which the
\* write loop never sees
AddDatabaseConfig_on_copy(c) ==
    /\ call[c].pc = "database"
    /\ LET copy == DictCopy(heap, call[c].template_files, "scratch: template_files")
       IN  heap' = IF /\ Truthy(ConfigGet(call[c].config, "database_type", None))
                     /\ ~Contains(React, call[c].template)
                     /\ ~Contains(NodeJs, call[c].template)
                  THEN add_database_config(copy.heap, call[c].config["database_type"],
                                           copy.ref, call[c].base_dir)
                  ELSE heap
    /\ call' = [call EXCEPT ![c] =
           [@ EXCEPT !.i = 1,
                     !.pc = IF heap'[call[c].template_files] = <<>> THEN "git" ELSE "write"]]
    /\ UNCHANGED <<dirs, files, mergeVars, uiVars>>

\* lines 133-134
AddDatabaseConfig(c) ==
    /\ call[c].pc = "database"
    /\ heap' = IF /\ Truthy(ConfigGet(call[c].config, "database_type", None))
                  /\ ~Contains(React, call[c].template)
                  /\ ~Contains(NodeJs, call[c].template)
               THEN add_database_config(heap, call[c].config["database_type"],
                                        call[c].template_files, call[c].base_dir)
               ELSE heap
    /\ call' = [call EXCEPT ![c] =
           [@ EXCEPT !.i = 1,
                     !.pc = IF heap'[call[c].template_files] = <<>> THEN "git" ELSE "write"]]
    /\ UNCHANGED <<dirs, files, mergeVars, uiVars>>

\* lines 137-145: one round of the loop over template_files.items()
WriteTemplateFile(c) ==
    /\ call[c].pc = "write"
    /\ LET items == heap[call[c].template_files]
           file_path == items[call[c].i][1]
           content == items[call[c].i][2]
           full_path == call[c].project_path \o file_path
       IN  /\ SetFS(WriteText(Mkdir(FS, Parent(full_path)), full_path,
                              Replace(content, call[c].name)))
           /\ call' = [call EXCEPT ![c] =
                  [@ EXCEPT !.i = @ + 1,
                            !.pc = IF call[c].i = Len(items) THEN "git" ELSE "write"]]
    /\ UNCHANGED <<heap, mergeVars, uiVars>>

\* lines 148-152 with SETUP.md written before the repository is initialized
InitGitRepo_after_setup(c) ==
    /\ call[c].pc = "git"
    /\ LET fs == create_setup_md(FS, call[c].project_path,
                                 PathName(call[c].output_dir, call[c].name),
                                 call[c].template, call[c].config)
       IN  \/ /\ ConfigGet(call[c].config, "git_init", TRUE)
              /\ \E outcome \in GitOutcomes :
                    /\ SetFS(init_git_repo(fs, call[c].project_path, outcome))
                    /\ call' = [call EXCEPT ![c] =
                           [@ EXCEPT !.pc = "setup", !.git = outcome,
                                     !.commits = IF outcome = "committed"
                                                 THEN Append(@, Tracked(fs, call[c].project_path))
                                                 ELSE @]]
           \/ /\ ~ConfigGet(call[c].config, "git_init", TRUE)
              /\ call' = [call EXCEPT ![c].pc = "setup"]
              /\ SetFS(fs)
    /\ UNCHANGED <<heap, mergeVars, uiVars>>

\* lines 148-149; git records how far the git commands got, commits the
\* commits made in the project's repository
InitGitRepo(c) ==
    /\ call[c].pc = "git"
    /\ \/ /\ ConfigGet(call[c].config, "git_init", TRUE)
          /\ \E outcome \in GitOutcomes :
                /\ SetFS(init_git_repo(FS, call[c].project_path, outcome))
                /\ call' = [call EXCEPT ![c] =
                       [@ EXCEPT !.pc = IF GitRaises(outcome) THEN "raised" ELSE "setup",
                                 !.git = outcome,
                                 !.commits = IF outcome = "committed"
                                             THEN Append(@, Tracked(FS, call[c].project_path))
                                             ELSE @]]
       \/ /\ ~ConfigGet(call[c].config, "git_init", TRUE)
          /\ call' = [call EXCEPT ![c].pc = "setup"]
          /\ UNCHANGED <<dirs, files>>
    /\ UNCHANGED <<heap, mergeVars, uiVars>>

\* lines 152-154: SETUP.md, then the function ends and returns None
CreateSetupMd(c) ==
    /\ call[c].pc = "setup"
    /\ IF WriteTextRaises(FS, Append(call[c].project_path, "SETUP.md"))
       THEN /\ call' = [call EXCEPT ![c] =
                   [@ EXCEPT !.pc = OnError("setup", "done"), !.error = "setup"]]
            /\ UNCHANGED <<dirs, files>>
       ELSE /\ SetFS(create_setup_md(FS, call[c].project_path,
                                     PathName(call[c].output_dir, call[c].name),
                                     call[c].template, call[c].config))
            /\ call' = [call EXCEPT ![c] = [@ EXCEPT !.pc = "done", !.result = None]]
    /\ UNCHANGED <<heap, mergeVars, uiVars>>

\* line 115 raises: shutil.rmtree fails after removing some of the files (or
\* none)
RemoveExistingFails(c) ==
    /\ call[c].pc = "remove"
    /\ Exists(FS, call[c].project_path)
    /\ \E gone \in SUBSET {f \in DOMAIN files : IsPrefix(call[c].project_path, f)} :
          SetFS(RmtreeFailed(FS, call[c].project_path, gone))
    /\ call' = [call EXCEPT ![c] =
           [@ EXCEPT !.pc = OnError("rmtree", "mkdir"), !.error = "rmtree"]]
    /\ UNCHANGED <<heap, mergeVars, uiVars>>

\* line 118 raises: the directory cannot be created
MakeProjectDirFails(c) ==
    /\ call[c].pc = "mkdir"
    /\ call' = [call EXCEPT ![c] =
           [@ EXCEPT !.pc = OnError("mkdir", "architecture"), !.error = "mkdir"]]
    /\ UNCHANGED <<dirs, files, heap, mergeVars, uiVars>>

\* lines 139-144 raise in one round of the write loop
WriteTemplateFileFails(c) ==
    /\ call[c].pc = "write"
    /\ LET items == heap[call[c].template_files]
           full_path == call[c].project_path \o items[call[c].i][1]
           next == IF call[c].i = Len(items) THEN "git" ELSE "write"
       IN  /\ \E how \in WriteFailures : SetFS(WriteFailed(FS, full_path, how))
           /\ call' = [call EXCEPT ![c] =
                  [@ EXCEPT !.pc = OnError("write", next),
                            !.i = IF OnError("write", next) = "raised" THEN @ ELSE @ + 1,
                            !.error = "write"]]
    /\ UNCHANGED <<heap, mergeVars, uiVars>>

-----------------------------------------------------------------------------
(* The requests and the disk a call starts from                            *)

RECURSIVE SeqsUpTo(_, _)
SeqsUpTo(S, n) ==
    IF n = 0 THEN {<<>>}
    ELSE LET shorter == SeqsUpTo(S, n - 1)
         IN  shorter \cup {Append(s, x) : s \in shorter, x \in S}

Web == <<"W", "e", "b">>
Dashboard == <<"D", "a", "s", "h", "b", "o", "a", "r", "d">>
Application == <<"A", "p", "p", "l", "i", "c", "a", "t", "i", "o", "n">>
Core == <<"C", "o", "r", "e">>
Service == <<"S", "e", "r", "v", "i", "c", "e">>
App == <<"A", "p", "p">>
Backend == <<"B", "a", "c", "k", "e", "n", "d">>
Python == <<"P", "y", "t", "h", "o", "n">>
react_lower == <<"r", "e", "a", "c", "t">>
nodejs_lower == <<"n", "o", "d", "e", ".", "j", "s">>
FASTAPI_upper == <<"F", "A", "S", "T", "A", "P", "I">>

\* words put together with blanks
Phrase(words) == Join(words, " ")

\* the names the user interface offers (the keys of TEMPLATES and the generic
\* service its descriptions name)
GenTemplates ==
    {Phrase(<<React, Web, Dashboard>>), Phrase(<<NodeJs, Application>>),
     Phrase(<<FastAPI, Core, Service>>), Phrase(<<Mobile, App, Backend>>),
     Phrase(<<Desktop, Application>>), Phrase(<<Python, Core, Service>>)}

\* names of up to MaxWords words, keywords and near misses
ClassifyWords ==
    {React, NodeJs, Desktop, FastAPI, Mobile,
     react_lower, nodejs_lower, FASTAPI_upper, Python, Service}

ClassifyTemplates == {Phrase(ws) : ws \in SeqsUpTo(ClassifyWords, MaxWords) \ {<<>>}}

Names == {<<"demo">>, <<"my-app_2">>, <<>>}

OutputDir == <<"home", "out">>

AllFeatureNames ==
    DictKeys(nodejs_app_FEATURES) \cup DictKeys(desktop_app_FEATURES)
    \cup DictKeys(fastapi_core_FEATURES) \cup DictKeys(mobile_backend_FEATURES)
    \cup {"does-not-exist"}

\* the features worth asking of a template: those its category knows (among
\* them, for Node.js and Desktop, the one create_setup_md looks for) and one
\* that no category knows
FeatureNamesFor(template) ==
    (IF Contains(NodeJs, template) THEN DictKeys(nodejs_app_FEATURES) ELSE {})
    \cup (IF Contains(Desktop, template) THEN DictKeys(desktop_app_FEATURES) ELSE {})
    \cup (IF Contains(FastAPI, template) THEN DictKeys(fastapi_core_FEATURES) ELSE {})
    \cup (IF Contains(Mobile, template) THEN DictKeys(mobile_backend_FEATURES) ELSE {})
    \cup {"does-not-exist"}

EmptyConfig == [k \in {} |-> None]

FullConfigs(featureLists) ==
    {  ("enable_logger" :> l) @@ ("enable_exception_handler" :> e)
       @@ ("database_type" :> d) @@ ("features" :> f) @@ ("git_init" :> g) :
       l \in BOOLEAN, e \in BOOLEAN, d \in {None, "postgresql", "mongodb", "sqlite"},
       f \in featureLists, g \in BOOLEAN }

\* the directory tree before any call: a project "demo" from an earlier run in
\* the output directory, a file beside it, a file outside the output directory
InitialFS ==
    [dirs  |-> {<<>>, <<"home">>, <<"home", "out">>, <<"home", "out", "demo">>,
                <<"home", "out", "demo", "app">>},
     files |-> (<<"home", "notes.txt">> :> <<"#notes">>)
               @@ (<<"home", "out", "keep.txt">> :> <<"#keep">>)
               @@ (<<"home", "out", "demo", "old.txt">> :> <<"#old/old.txt">>)
               @@ (<<"home", "out", "demo", "README.md">> :> <<"#old/README.md">>)
               @@ (<<"home", "out", "demo", "app", "legacy.py">> :> <<"#old/legacy.py">>)]

\* generate_project(template, name, output_dir, config) about to start
NewCall(template, name, output_dir, config) ==
    [pc |-> "select", template |-> template, name |-> name, output_dir |-> output_dir,
     config |-> config, template_files |-> None, base_dir |-> None,
     project_path |-> <<>>, i |-> 0, git |-> "not run", result |-> "running",
     error |-> "none", commits |-> <<>>]

MergeIdle ==
    /\ base_req = <<>>
    /\ feature_req = <<>>
    /\ merged = <<>>
    /\ remerged = <<>>
    /\ mpc = "off"

GenIdle ==
    /\ heap = CatalogHeap
    /\ dirs = InitialFS.dirs
    /\ files = InitialFS.files
    /\ call = <<>>

-----------------------------------------------------------------------------
(* Specifications                                                          *)

\* one call of generate_project, with any request
Init ==
    /\ MergeIdle
    /\ UiIdle
    /\ heap = CatalogHeap
    /\ dirs = InitialFS.dirs
    /\ files = InitialFS.files
    /\ \E template \in GenTemplates, name \in Names :
       \E config \in {EmptyConfig}
              \cup FullConfigs(SeqsUpTo(FeatureNamesFor(template), MaxGenFeatures)) :
          call = <<NewCall(template, name, OutputDir, config)>>

Next ==
    \/ \E c \in DOMAIN call : Select(c)
    \/ \E c \in DOMAIN call : RemoveExisting(c)
    \/ \E c \in DOMAIN call : MakeProjectDir(c)
    \/ \E c \in DOMAIN call : CreateArchitectureFolder(c)
    \/ \E c \in DOMAIN call : AddLogger(c)
    \/ \E c \in DOMAIN call : AddExceptionHandler(c)
    \/ \E c \in DOMAIN call : AddDatabaseConfig(c)
    \/ \E c \in DOMAIN call : WriteTemplateFile(c)
    \/ \E c \in DOMAIN call : InitGitRepo(c)
    \/ \E c \in DOMAIN call : CreateSetupMd(c)

Spec == Init /\ [][Next]_vars

\* one call of generate_project on a disk whose operations may fail
FailFeatureLists(template) == {<<>>} \cup {<<f>> : f \in FeatureNamesFor(template)}

FailConfigs(template) ==
    {  ("enable_logger" :> l) @@ ("enable_exception_handler" :> e)
       @@ ("database_type" :> d) @@ ("features" :> f) @@ ("git_init" :> g) :
       l \in BOOLEAN, e \in BOOLEAN, d \in {None, "postgresql"},
       f \in FailFeatureLists(template), g \in BOOLEAN }

FailInit ==
    /\ MergeIdle
    /\ UiIdle
    /\ heap = CatalogHeap
    /\ dirs = InitialFS.dirs
    /\ files = InitialFS.files
    /\ \E template \in GenTemplates, name \in Names :
       \E config \in {EmptyConfig} \cup FailConfigs(template) :
          call = <<NewCall(template, name, OutputDir, config)>>

FailNext ==
    \/ \E c \in DOMAIN call : Select(c)
    \/ \E c \in DOMAIN call : RemoveExisting(c)
    \/ \E c \in DOMAIN call : RemoveExistingFails(c)
    \/ \E c \in DOMAIN call : MakeProjectDir(c)
    \/ \E c \in DOMAIN call : MakeProjectDirFails(c)
    \/ \E c \in DOMAIN call : CreateArchitectureFolder(c)
    \/ \E c \in DOMAIN call : AddLogger(c)
    \/ \E c \in DOMAIN call : AddExceptionHandler(c)
    \/ \E c \in DOMAIN call : AddDatabaseConfig(c)
    \/ \E c \in DOMAIN call : WriteTemplateFile(c)
    \/ \E c \in DOMAIN call : WriteTemplateFileFails(c)
    \/ \E c \in DOMAIN call : InitGitRepo(c)
    \/ \E c \in DOMAIN call : CreateSetupMd(c)

SpecFail == FailInit /\ [][FailNext]_vars

\* two calls of generate_project at once (two GeneratorThreads), for two
\* different pairs of output directory and name; a step of the specification
\* is a statement of one of them
Targets ==
    << [output_dir |-> <<"home", "out">>, name |-> <<"demo">>],
       [output_dir |-> <<"home", "out">>, name |-> <<"my-app_2">>],
       [output_dir |-> <<"home", "elsewhere">>, name |-> <<"demo">>],
       [output_dir |-> <<"home">>, name |-> <<"out">>] >>

TwoTemplates == {Phrase(<<React, Web, Dashboard>>), Phrase(<<Desktop, Application>>)}

TwoConfigs ==
    {EmptyConfig, ("git_init" :> FALSE) @@ ("database_type" :> "postgresql")}

TwoInit ==
    /\ MergeIdle
    /\ UiIdle
    /\ heap = CatalogHeap
    /\ dirs = InitialFS.dirs
    /\ files = InitialFS.files
    /\ \E t1 \in DOMAIN Targets, t2 \in DOMAIN Targets :
       \E template1 \in TwoTemplates, template2 \in TwoTemplates :
       \E config1 \in TwoConfigs, config2 \in TwoConfigs :
          /\ t1 < t2
          /\ call = << NewCall(template1, Targets[t1].name, Targets[t1].output_dir, config1),
                       NewCall(template2, Targets[t2].name, Targets[t2].output_dir, config2) >>

SpecTwo == TwoInit /\ [][Next]_vars

\* the template selection alone, over many template names
ClassifyInit ==
    /\ MergeIdle
    /\ UiIdle
    /\ heap = CatalogHeap
    /\ dirs = InitialFS.dirs
    /\ files = InitialFS.files
    /\ \E template \in ClassifyTemplates :
          call = <<NewCall(template, <<"demo">>, OutputDir, EmptyConfig)>>

ClassifyNext == \E c \in DOMAIN call : Select(c)

SpecClassify == ClassifyInit /\ [][ClassifyNext]_vars

\* the composition of template_files alone, over longer feature lists
ComposeInit ==
    /\ MergeIdle
    /\ UiIdle
    /\ heap = CatalogHeap
    /\ dirs = InitialFS.dirs
    /\ files = InitialFS.files
    /\ \E template \in GenTemplates, features \in SeqsUpTo(AllFeatureNames, MaxFeatures) :
          call = <<NewCall(template, <<"demo">>, OutputDir, ("features" :> features))>>

ComposeNext == \E c \in DOMAIN call : Select(c)

SpecCompose == ComposeInit /\ [][ComposeNext]_vars

-----------------------------------------------------------------------------
(* The main window: its handlers                                           *)

\* the texts the user may put in the name field
UiTexts ==
    SeqsUpTo(UiChars, MaxNameLen)
    \cup {PieceChars["demo"], <<" ">> \o PieceChars["demo"] \o <<" ">>,
          PieceChars["my-app_2"], PieceChars[".."]}

\* self.output_dir, as select_folder left it
UiOutputDir == OutputDir

\* template_combo.currentText(): the first key of TEMPLATES
UiTemplate == Phrase(<<React, Web, Dashboard>>)

\* get_config() with no database chosen and no feature box checked
get_config ==
    ("enable_logger" :> TRUE) @@ ("enable_exception_handler" :> TRUE)
    @@ ("git_init" :> TRUE) @@ ("database_type" :> None) @@ ("features" :> <<>>)

\* (self.output_dir / name).exists(), name being a text
UiProjectExists(name) ==
    \E piece \in DOMAIN PieceChars :
        /\ PieceChars[piece] = name
        /\ Exists(FS, PathJoin(UiOutputDir, <<piece>>))

\* name_input.textChanged: the user sets the field, validate_project_name
\* sets the hint
TextChanged ==
    /\ ~ui.generator_thread.started
    /\ \E text \in UiTexts :
          /\ text # ui.name_input
          /\ ui' = [ui EXCEPT !.name_input = text,
                              !.name_hint = validate_project_name(text)]
    /\ UNCHANGED <<mergeVars, genVars>>

\* generate() without generate_btn.setEnabled(False)
generate_keeps_button ==
    /\ ui.generate_btn_enabled
    /\ LET name == Strip(ui.name_input)
       IN  IF name = <<>>
           THEN ui' = [ui EXCEPT !.message = "Please enter a project name"]
           ELSE IF ~AllAlnumOrMark(name)
           THEN ui' = [ui EXCEPT !.message =
                   "Project name can only contain letters, numbers, hyphens, and underscores"]
           ELSE \E reply \in {"Yes", "No"} :
                   IF UiProjectExists(name) /\ reply = "No"
                   THEN ui' = [ui EXCEPT !.message = "Directory Exists: No"]
                   ELSE ui' = [ui EXCEPT
                           !.message = IF UiProjectExists(name)
                                       THEN "Directory Exists: Yes" ELSE @,
                           !.generator_thread =
                               [started |-> TRUE, template |-> UiTemplate, name |-> name,
                                output_dir |-> UiOutputDir, config |-> get_config,
                                phase |-> "started", emitted |-> 0, success |-> FALSE,
                                text |-> ""]]
    /\ UNCHANGED <<mergeVars, genVars>>

\* generate() that asks whether to overwrite and goes on whatever the answer
generate_ignores_reply ==
    /\ ui.generate_btn_enabled
    /\ LET name == Strip(ui.name_input)
       IN  IF name = <<>>
           THEN ui' = [ui EXCEPT !.message = "Please enter a project name"]
           ELSE IF ~AllAlnumOrMark(name)
           THEN ui' = [ui EXCEPT !.message =
                   "Project name can only contain letters, numbers, hyphens, and underscores"]
           ELSE \E reply \in {"Yes", "No"} :
                   ui' = [ui EXCEPT
                           !.message = IF ~UiProjectExists(name) THEN @
                                       ELSE IF reply = "No" THEN "Directory Exists: No"
                                       ELSE "Directory Exists: Yes",
                           !.generate_btn_enabled = FALSE,
                           !.generator_thread =
                               [started |-> TRUE, template |-> UiTemplate, name |-> name,
                                output_dir |-> UiOutputDir, config |-> get_config,
                                phase |-> "started", emitted |-> 0, success |-> FALSE,
                                text |-> ""]]
    /\ UNCHANGED <<mergeVars, genVars>>

\* generate(): the handler of the Generate button, up to generator_thread.start()
generate ==
    /\ ui.generate_btn_enabled
    /\ LET name == Strip(ui.name_input)
       IN  IF name = <<>>
           THEN ui' = [ui EXCEPT !.message = "Please enter a project name"]
           ELSE IF ~AllAlnumOrMark(name)
           THEN ui' = [ui EXCEPT !.message =
                   "Project name can only contain letters, numbers, hyphens, and underscores"]
           ELSE \E reply \in {"Yes", "No"} :
                   IF UiProjectExists(name) /\ reply = "No"
                   THEN ui' = [ui EXCEPT !.message = "Directory Exists: No"]
                   ELSE ui' = [ui EXCEPT
                           !.message = IF UiProjectExists(name)
                                       THEN "Directory Exists: Yes" ELSE @,
                           !.generate_btn_enabled = FALSE,
                           !.generator_thread =
                               [started |-> TRUE, template |-> UiTemplate, name |-> name,
                                output_dir |-> UiOutputDir, config |-> get_config,
                                phase |-> "started", emitted |-> 0, success |-> FALSE,
                                text |-> ""]]
    /\ UNCHANGED <<mergeVars, genVars>>

UiInit == MergeIdle /\ GenIdle /\ UiIdle

UiNext == TextChanged \/ generate

SpecUi == UiInit /\ [][UiNext]_vars


-----------------------------------------------------------------------------
(* The main window with its GeneratorThread: run() and the finished signal *)

\* the texts in the name field when Generate is clicked: the project that is
\* there already, the same with blanks around it, a new project, nothing, a
\* blank, and a text the handler refuses
RunTexts ==
    {PieceChars["demo"], <<" ">> \o PieceChars["demo"] \o <<" ">>,
     PieceChars["my-app_2"], <<>>, <<" ">>, <<"a", "/">>}

\* the name generate_project gets: the path piece with that text
PieceOf(text) == CHOOSE piece \in DOMAIN PieceChars : PieceChars[piece] = text

\* GeneratorThread.run, lines 36-38: the thread runs, emits progress and calls
\* generate_project
run_calls_generate_project ==
    /\ ui.generator_thread.phase = "started"
    /\ ui' = [ui EXCEPT !.generator_thread.phase = "running"]
    /\ call' = <<NewCall(ui.generator_thread.template, <<PieceOf(ui.generator_thread.name)>>,
                         ui.generator_thread.output_dir, ui.generator_thread.config)>>
    /\ UNCHANGED <<heap, dirs, files, mergeVars>>

\* lines 44-45: generate_project returned; progress and finished(True, ...) are
\* emitted
run_emits_success ==
    /\ ui.generator_thread.phase = "running"
    /\ call # <<>> /\ call[1].pc = "done"
    /\ ui' = [ui EXCEPT !.generator_thread =
                 [@ EXCEPT !.phase = "emitted", !.emitted = @ + 1, !.success = TRUE,
                           !.text = "Project created successfully!"]]
    /\ UNCHANGED <<genVars, mergeVars>>

\* run() without its try/except: an exception of generate_project ends the
\* thread and nothing is emitted
run_emits_failure_uncaught ==
    /\ ui.generator_thread.phase = "running"
    /\ call # <<>> /\ call[1].pc = "raised"
    /\ ui' = [ui EXCEPT !.generator_thread.phase = "ended"]
    /\ UNCHANGED <<genVars, mergeVars>>

\* lines 46-48: generate_project raised; the handler logs and emits
\* finished(False, str(e))
run_emits_failure ==
    /\ ui.generator_thread.phase = "running"
    /\ call # <<>> /\ call[1].pc = "raised"
    /\ ui' = [ui EXCEPT !.generator_thread =
                 [@ EXCEPT !.phase = "emitted", !.emitted = @ + 1, !.success = FALSE,
                           !.text = call[1].error]]
    /\ UNCHANGED <<genVars, mergeVars>>

\* on_generation_finished(success, message): the main thread takes the queued
\* signal, enables the button and shows the outcome
on_generation_finished ==
    /\ ui.generator_thread.phase = "emitted"
    /\ ui' = [ui EXCEPT !.generate_btn_enabled = TRUE,
                        !.message = IF ui.generator_thread.success
                                    THEN "Success" ELSE "Failed to generate project",
                        !.generator_thread.phase = "handled"]
    /\ UNCHANGED <<genVars, mergeVars>>

\* the window with a text in the name field, before any click
RunInit ==
    /\ MergeIdle
    /\ GenIdle
    /\ \E text \in RunTexts :
          ui = [name_input |-> text, name_hint |-> validate_project_name(text),
                message |-> "none", generate_btn_enabled |-> TRUE,
                generator_thread |-> NoThread]

\* the statements of generate_project the thread runs; mkdir and the write
\* loop may fail
RunEngine ==
    \/ \E c \in DOMAIN call : Select(c)
    \/ \E c \in DOMAIN call : RemoveExisting(c)
    \/ \E c \in DOMAIN call : MakeProjectDir(c)
    \/ \E c \in DOMAIN call : MakeProjectDirFails(c)
    \/ \E c \in DOMAIN call : CreateArchitectureFolder(c)
    \/ \E c \in DOMAIN call : AddLogger(c)
    \/ \E c \in DOMAIN call : AddExceptionHandler(c)
    \/ \E c \in DOMAIN call : AddDatabaseConfig(c)
    \/ \E c \in DOMAIN call : WriteTemplateFile(c)
    \/ \E c \in DOMAIN call : WriteTemplateFileFails(c)
    \/ \E c \in DOMAIN call : InitGitRepo(c)
    \/ \E c \in DOMAIN call : CreateSetupMd(c)

\* what the thread does
RunThread ==
    \/ run_calls_generate_project
    \/ RunEngine
    \/ run_emits_success
    \/ run_emits_failure

RunNext ==
    \/ generate
    \/ RunThread
    \/ on_generation_finished

\* clicks on Generate, the thread and the handler of its signal, in any order
SpecRun == RunInit /\ [][RunNext]_vars

\* the same where the thread, once started, keeps running (the scheduler gives
\* it time) and the event loop of the main thread delivers the queued signal
SpecRunLive ==
    /\ RunInit
    /\ [][RunNext]_vars
    /\ WF_vars(RunThread)
    /\ WF_vars(on_generation_finished)
-----------------------------------------------------------------------------
(* Specification of merge_requirements called on arbitrary texts           *)

TextChars == {"a", "b", " ", "\n"}

Texts == SeqsUpTo(TextChars, MaxLen)

NoText == <<"?">>

MergeInit ==
    /\ base_req \in Texts
    /\ feature_req \in Texts
    /\ merged = NoText
    /\ remerged = NoText
    /\ mpc = "call"
    /\ GenIdle
    /\ UiIdle

\* merged = merge_requirements(base_req, feature_req)
Merge ==
    /\ mpc = "call"
    /\ merged' = merge_requirements(base_req, feature_req)
    /\ mpc' = "merged"
    /\ UNCHANGED <<base_req, feature_req, remerged, genVars, uiVars>>

\* remerged = merge_requirements(merged, feature_req)
MergeAgain ==
    /\ mpc = "merged"
    /\ remerged' = merge_requirements(merged, feature_req)
    /\ mpc' = "remerged"
    /\ UNCHANGED <<base_req, feature_req, merged, genVars, uiVars>>

MergeNext == Merge \/ MergeAgain

SpecMerge == MergeInit /\ [][MergeNext]_vars

-----------------------------------------------------------------------------
(* Claims about merge_requirements                                         *)

\* line is raw with the whitespace on both sides removed, and nothing else
IsTrimOf(line, raw) ==
    /\ line # <<>>
    /\ line[1] \notin Whitespace
    /\ line[Len(line)] \notin Whitespace
    /\ \E i \in 1..Len(raw) :
          /\ i + Len(line) - 1 <= Len(raw)
          /\ SubSeq(raw, i, i + Len(line) - 1) = line
          /\ \A k \in 1..(i - 1) : raw[k] \in Whitespace
          /\ \A k \in (i + Len(line))..Len(raw) : raw[k] \in Whitespace

\* the lines of a merged manifest: what precedes the final newline, cut at newlines
LinesOf(out) ==
    IF Len(out) <= 1 THEN <<>> ELSE Split(SubSeq(out, 1, Len(out) - 1), NL)

InputLines ==
    LET la == Split(base_req, NL)
        lb == Split(feature_req, NL)
    IN  {la[i] : i \in 1..Len(la)} \cup {lb[i] : i \in 1..Len(lb)}

\* C1: merge_requirements(a, b) is exactly the distinct non-blank trimmed lines
\* of a or b, ascending, newline-joined, with exactly one trailing newline.
C1_MergeContract ==
    mpc # "call" =>
        LET n == Len(merged)
            lines == LinesOf(merged)
        IN  /\ n >= 1
            /\ merged[n] = NL
            /\ n >= 2 => merged[n - 1] # NL
            /\ \A i \in 1..Len(lines) : \E raw \in InputLines : IsTrimOf(lines[i], raw)
            /\ \A raw \in InputLines :
                  (\E k \in 1..Len(raw) : raw[k] \notin Whitespace)
                      => \E i \in 1..Len(lines) : IsTrimOf(lines[i], raw)
            /\ \A i \in 1..(Len(lines) - 1) : StrLess(lines[i], lines[i + 1])

\* both inputs contribute; a blank-padded line and a duplicate are collapsed
C1_Witness ==
    /\ mpc = "merged"
    /\ base_req = <<" ", "b", "\n">>
    /\ feature_req = <<"a", "\n", "b">>
    /\ merged = <<"a", "\n", "b", "\n">>

\* C2: merge_requirements(a, b) = merge_requirements(b, a).
C2_MergeCommutative ==
    mpc # "call" => merged = merge_requirements(feature_req, base_req)

C2_Witness ==
    /\ mpc = "merged"
    /\ base_req = <<"b">>
    /\ feature_req = <<"a", "b">>
    /\ merged = <<"a", "b", "\n", "b", "\n">>

\* the sorted, de-duplicated normal form of one manifest
NormalForm(x) == Join(Sorted(StrippedLines(x)), NL) \o <<NL>>

\* C3: merge(merge(a, b), b) = merge(a, b); merge(x, x) = merge(x, "") = the
\* normal form of x; merge("", "") is a single newline.
C3_MergeIdempotent ==
    /\ mpc = "remerged" => remerged = merged
    /\ (mpc # "call" /\ base_req = feature_req) =>
          /\ merged = merge_requirements(base_req, <<>>)
          /\ merged = NormalForm(base_req)
    /\ (mpc # "call" /\ feature_req = <<>>) => merged = NormalForm(base_req)
    /\ (mpc # "call" /\ base_req = <<>> /\ feature_req = <<>>) => merged = <<NL>>

C3_Witness ==
    /\ mpc = "remerged"
    /\ base_req = <<"b", "\n", "a">>
    /\ feature_req = <<"a", " ">>
    /\ merged = <<"a", "\n", "b", "\n">>
    /\ remerged = merged

-----------------------------------------------------------------------------
(* Claims about the template selection and the composition of the FileSet  *)

\* the keywords in the order the claims give them
PriorityOrder == <<React, NodeJs, Desktop, FastAPI, Mobile>>

\* the place in PriorityOrder of the earliest keyword the name contains; one
\* past the end when it contains none (the generic backend)
Rank(template) ==
    LET hits == {i \in 1..Len(PriorityOrder) : Contains(PriorityOrder[i], template)}
    IN  IF hits = {} THEN Len(PriorityOrder) + 1
        ELSE CHOOSE i \in hits : \A j \in hits : i <= j

CategoryBase ==
    <<"react_web.BASE_TEMPLATE", "nodejs_app.BASE_TEMPLATE", "desktop_app.BASE_TEMPLATE",
      "fastapi_core.BASE_TEMPLATE", "mobile_backend.BASE_TEMPLATE",
      "python_core.BASE_TEMPLATE">>

CategoryBaseDir == <<"src", "src", "app", "app", "app", "app">>

CategoryFeatures ==
    <<NoFeatures, nodejs_app_FEATURES, desktop_app_FEATURES, fastapi_core_FEATURES,
      mobile_backend_FEATURES, NoFeatures>>

Selected(c) == call[c].pc \notin {"select", "raised"}

\* C4: the template name is classified by case-sensitive substring tests in the
\* order React, Node.js, Desktop, FastAPI, Mobile, first match wins; the
\* category fixes the base FileSet and the base directory.
C4_PriorityClassification ==
    \A c \in DOMAIN call :
        LET k == Rank(call[c].template)
        IN  (k <= Len(PriorityOrder) /\ call[c].pc # "select") =>
                /\ call[c].pc = "remove"
                /\ call[c].template_files \in DOMAIN heap
                /\ heap[call[c].template_files] = CatalogHeap[CategoryBase[k]]
                /\ call[c].base_dir = CategoryBaseDir[k]

\* a name with two keywords: "Mobile Desktop" is a Desktop project
C4_Witness ==
    \E c \in DOMAIN call :
        /\ call[c].template = Phrase(<<Mobile, Desktop>>)
        /\ call[c].pc = "remove"
        /\ heap[call[c].template_files] = desktop_app_BASE_TEMPLATE
        /\ call[c].base_dir = "app"

C6_CatalogImmutable ==
    /\ CatalogIds \subseteq DOMAIN heap
    /\ \A id \in CatalogIds : heap[id] = CatalogHeap[id]

\* a finished call whose template_files got a feature and database entries
C6_Witness ==
    \E c \in DOMAIN call :
        /\ call[c].pc = "done"
        /\ Contains(FastAPI, call[c].template)
        /\ ConfigGet(call[c].config, "features", <<>>) = <<"PostgreSQL">>
        /\ ConfigGet(call[c].config, "database_type", None) = "mongodb"
        /\ heap[call[c].template_files] # fastapi_core_BASE_TEMPLATE
        /\ DictGet(heap[call[c].template_files], <<".env">>, None)
              = <<"#7913d2", "mongodb://", "#07d95d", "{{name}}", "#724c55", "{{name}}",
                  "#2cff88">>

\* the fragments of the features the category knows, in the order selected
KnownFragments(k, features) ==
    LET Known(f) == DictHas(CategoryFeatures[k], f)
        known == SelectSeq(features, Known)
    IN  [j \in 1..Len(known) |-> CatalogHeap[DictGet(CategoryFeatures[k], known[j], None)]]

\* the manifest after merging in, in turn, the manifests of frags[j..]
RECURSIVE MergedManifest(_, _, _)
MergedManifest(existing, frags, j) ==
    IF j > Len(frags) THEN existing
    ELSE MergedManifest(
             IF DictHas(frags[j], RequirementsTxt)
             THEN merge_requirements(existing, DictGet(frags[j], RequirementsTxt, <<>>))
             ELSE existing,
             frags, j + 1)

\* C7: features are overlaid on a copy of the base in the order selected;
\* requirements.txt is merged, any other path is overwritten, so the last
\* selected feature that defines a path decides its content.
C7_OverlayInOrder ==
    \A c \in DOMAIN call :
        LET k == Rank(call[c].template)
        IN  (k \in 2..5 /\ call[c].pc # "select") =>
            LET base == CatalogHeap[CategoryBase[k]]
                frags == KnownFragments(k, ConfigGet(call[c].config, "features", <<>>))
                tf == heap[call[c].template_files]
            IN  /\ DictKeys(tf) = DictKeys(base)
                       \cup UNION {DictKeys(frags[j]) : j \in 1..Len(frags)}
                /\ \A p \in DictKeys(tf) :
                      LET defining == {j \in 1..Len(frags) : DictHas(frags[j], p)}
                      IN  IF defining = {}
                          THEN DictGet(tf, p, None) = DictGet(base, p, None)
                          ELSE IF p = RequirementsTxt
                          THEN DictGet(tf, p, None)
                                   = MergedManifest(DictGet(base, p, <<>>), frags, 1)
                          ELSE LET last == CHOOSE j \in defining : \A i \in defining : i <= j
                               IN  DictGet(tf, p, None) = DictGet(frags[last], p, None)

\* FastAPI with PostgreSQL then MongoDB: both define .env and requirements.txt
C7_Witness ==
    \E c \in DOMAIN call :
        /\ call[c].template = Phrase(<<FastAPI, Core, Service>>)
        /\ call[c].config["features"] = <<"PostgreSQL", "MongoDB">>
        /\ call[c].pc = "remove"
        /\ DictGet(heap[call[c].template_files], <<".env">>, None)
              = DictGet(fastapi_core_FEATURE_MongoDB, <<".env">>, None)
        /\ DictGet(heap[call[c].template_files], <<".env">>, None)
              # DictGet(fastapi_core_FEATURE_PostgreSQL, <<".env">>, None)
        /\ DictGet(heap[call[c].template_files], RequirementsTxt, None)
              # DictGet(fastapi_core_FEATURE_MongoDB, RequirementsTxt, None)

-----------------------------------------------------------------------------
(* Claims about the written tree                                           *)

\* for file_path, content in fileset: write it under project_path
RECURSIVE WriteAll(_, _, _, _, _)
WriteAll(fs, project_path, fileset, name, i) ==
    IF i > Len(fileset) THEN fs
    ELSE LET full_path == project_path \o fileset[i][1]
         IN  WriteAll(WriteText(Mkdir(fs, Parent(full_path)), full_path,
                                Replace(fileset[i][2], name)),
                      project_path, fileset, name, i + 1)

\* what a whole call leaves, started on the initial disk: the statements of
\* generate_project one after the other
Outcome(template, name, output_dir, config, git) ==
    LET sel == SelectTemplate(CatalogHeap, "reference: template_files", template, config)
        project_path == PathJoin(output_dir, name)
        python == ~Contains(React, template) /\ ~Contains(NodeJs, template)
        fs1 == IF Exists(InitialFS, project_path)
               THEN Rmtree(InitialFS, project_path) ELSE InitialFS
        fs2 == Mkdir(fs1, project_path)
        fs3 == create_architecture_folder(fs2, project_path, template)
        fs4 == IF ConfigGet(config, "enable_logger", TRUE) /\ python
               THEN add_logger(fs3, project_path, sel.base_dir) ELSE fs3
        fs5 == IF ConfigGet(config, "enable_exception_handler", TRUE)
               THEN add_exception_handler(fs4, project_path, template, sel.base_dir)
               ELSE fs4
        h == IF Truthy(ConfigGet(config, "database_type", None)) /\ python
             THEN add_database_config(sel.heap, config["database_type"],
                                      sel.template_files, sel.base_dir)
             ELSE sel.heap
        fileset == h[sel.template_files]
        fs6 == WriteAll(fs5, project_path, fileset, name, 1)
        fs7 == IF git = "not run" THEN fs6 ELSE init_git_repo(fs6, project_path, git)
        fs8 == create_setup_md(fs7, project_path, PathName(output_dir, name),
                               template, config)
    IN  [fs |-> fs8, fileset |-> fileset]

\* the config with its feature list emptied
WithoutFeatures(config) ==
    [key \in DOMAIN config |-> IF key = "features" THEN <<>> ELSE config[key]]

\* some feature is asked for and the category knows none of those asked for
OnlyUnrecognized(c) ==
    LET features == ConfigGet(call[c].config, "features", <<>>)
        known == CategoryFeatures[Rank(call[c].template)]
    IN  /\ features # <<>>
        /\ \A i \in 1..Len(features) : ~DictHas(known, features[i])

\* C8: features the category does not know are ignored: no error, and the
\* FileSet and the written tree are those of the same call without features.
C8_UnrecognizedIgnored ==
    \A c \in DOMAIN call :
        OnlyUnrecognized(c) =>
            /\ call[c].pc # "raised"
            /\ call[c].pc = "remove" =>
                  heap[call[c].template_files]
                      = CatalogHeap[CategoryBase[Rank(call[c].template)]]
            /\ call[c].pc = "done" =>
                  LET ref == Outcome(call[c].template, call[c].name, call[c].output_dir,
                                     WithoutFeatures(call[c].config), call[c].git)
                  IN  /\ FS = ref.fs
                      /\ heap[call[c].template_files] = ref.fileset

C8_Witness ==
    \E c \in DOMAIN call :
        /\ call[c].pc = "done"
        /\ Contains(Desktop, call[c].template)
        /\ ConfigGet(call[c].config, "features", <<>>) = <<"does-not-exist">>
        /\ ConfigGet(call[c].config, "database_type", None) = "postgresql"
        /\ call[c].name = <<"demo">>
        /\ PathJoin(call[c].project_path, <<"SETUP.md">>) \in DOMAIN files

\* the characters the pattern ^[A-Za-z0-9_-]+$ allows
AllowedNameChars ==
    {ch \in DOMAIN Ord :
        \/ Ord[ch] \in 48..57
        \/ Ord[ch] \in 65..90
        \/ Ord[ch] \in 97..122
        \/ ch \in {"_", "-"}}

\* the name matches ^[A-Za-z0-9_-]+$: one piece (no "/"), not empty, allowed
\* characters only
NameMatchesPattern(name) ==
    /\ Len(name) = 1
    /\ PieceChars[name[1]] # <<>>
    /\ \A i \in 1..Len(PieceChars[name[1]]) : PieceChars[name[1]][i] \in AllowedNameChars

\* the files below a directory, by their paths relative to it
FilesBelow(fs, dir) ==
    {SubSeq(f, Len(dir) + 1, Len(f)) : f \in {g \in DOMAIN fs.files : IsPrefix(dir, g)}}

ScaffoldPaths ==
    {<<"architecture", "architecture.drawio">>, <<"architecture", "README.md">>}

SetupPath == <<"SETUP.md">>

\* no file the directory held before the call is still there with its old content
NoSurvivor(dir) ==
    \A f \in DOMAIN InitialFS.files :
        IsPrefix(dir, f) => (f \notin DOMAIN files \/ files[f] # InitialFS.files[f])

Occupied(c) == PathJoin(call[c].output_dir, call[c].name) \in InitialFS.dirs

\* the files below a directory that are not the repository's own
OutsideGit(paths) == {p \in paths : p[1] # ".git"}

\* C9 as stated, for a template of the catalog and a well-formed name, the
\* repository's own files left aside: over an existing directory, a finished
\* call leaves exactly the FileSet's files, the architecture scaffold and SETUP.md.
C9_ExactlyFileSetScaffoldSetup ==
    \A c \in DOMAIN call :
        (/\ call[c].pc = "done"
         /\ Occupied(c)
         /\ NameMatchesPattern(call[c].name)
         /\ Rank(call[c].template) <= Len(PriorityOrder)) =>
            /\ OutsideGit(FilesBelow(FS, call[c].project_path))
                  = DictKeys(heap[call[c].template_files]) \cup ScaffoldPaths
                    \cup {SetupPath}
            /\ NoSurvivor(call[c].project_path)

\* the modules add_logger and add_exception_handler write straight to disk
InjectedPaths(c) ==
    LET python == /\ ~Contains(React, call[c].template)
                  /\ ~Contains(NodeJs, call[c].template)
        core == <<call[c].base_dir, "core">>
    IN  (IF python /\ ConfigGet(call[c].config, "enable_logger", TRUE)
         THEN {Append(core, "__init__.py"), Append(core, "logger.py")} ELSE {})
        \cup (IF python /\ ConfigGet(call[c].config, "enable_exception_handler", TRUE)
              THEN {Append(core, "exceptions.py")} ELSE {})

\* the repository files the git commands left
GitPaths(git) ==
    CASE git \in {"not run", "init fails"} -> {}
      [] git = "add fails" -> {<<".git", "HEAD">>}
      [] git = "commit fails" -> {<<".git", "HEAD">>, <<".git", "index">>}
      [] git = "committed" ->
            {<<".git", "HEAD">>, <<".git", "index">>, <<".git", "COMMIT_EDITMSG">>}

\* C9, amended: over an existing directory, a finished call leaves exactly the
\* FileSet's files, the architecture scaffold, SETUP.md, the logger and
\* exception-handler modules written for a template that is neither React nor
\* Node.js, and the repository files of git; nothing older survives.
C9_ExactlyGeneratedFiles ==
    \A c \in DOMAIN call :
        (call[c].pc = "done" /\ Occupied(c)) =>
            /\ FilesBelow(FS, call[c].project_path)
                  = DictKeys(heap[call[c].template_files]) \cup ScaffoldPaths
                    \cup {SetupPath} \cup InjectedPaths(c) \cup GitPaths(call[c].git)
            /\ ConfigGet(call[c].config, "git_init", TRUE) = FALSE
                  => call[c].git = "not run"
            /\ NoSurvivor(call[c].project_path)

\* a Desktop project over the old "demo": its README.md is the new one
C9_Witness ==
    \E c \in DOMAIN call :
        /\ call[c].pc = "done"
        /\ call[c].name = <<"demo">>
        /\ Contains(Desktop, call[c].template)
        /\ ConfigGet(call[c].config, "enable_logger", TRUE)
        /\ call[c].git = "committed"
        /\ <<"home", "out", "demo", "old.txt">> \notin DOMAIN files
        /\ <<"home", "out", "demo", "app", "core", "logger.py">> \in DOMAIN files
        /\ files[<<"home", "out", "demo", "README.md">>] # <<"#old/README.md">>

\* C10: a call with a name that does not match the pattern is rejected before
\* anything on disk is removed, created or written.
C10_InvalidNameLeavesDiskAlone ==
    \A c \in DOMAIN call :
        ~NameMatchesPattern(call[c].name) =>
            /\ dirs = InitialFS.dirs
            /\ files = InitialFS.files

-----------------------------------------------------------------------------
(* Claims about the cross-cutting options                                  *)

\* the config without the options enable_logger, enable_exception_handler and
\* database_type, so that each takes its default
WithoutCrossCutting(config) ==
    [key \in DOMAIN config \ {"enable_logger", "enable_exception_handler", "database_type"}
        |-> config[key]]

\* the call sets one of the cross-cutting options away from its default
CrossCuttingSet(c) ==
    \/ ~ConfigGet(call[c].config, "enable_logger", TRUE)
    \/ ~ConfigGet(call[c].config, "enable_exception_handler", TRUE)
    \/ Truthy(ConfigGet(call[c].config, "database_type", None))

\* the paths of a tree that end in one of the add-on modules
AddOnModules(paths) ==
    {p \in paths :
        /\ Len(p) >= 2
        /\ <<p[Len(p) - 1], p[Len(p)]>>
              \in {<<"core", "logger.py">>, <<"core", "exceptions.py">>,
                   <<"db", "database.py">>}}

\* a file system without the file at path p
WithoutFile(fs, p) ==
    [dirs |-> fs.dirs, files |-> [f \in DOMAIN fs.files \ {p} |-> fs.files[f]]]

IsReactOrNode(template) == Contains(React, template) \/ Contains(NodeJs, template)

PastDatabase(c) == call[c].pc \in {"write", "git", "setup", "done"}

\* the URL schemes a content holds
Schemes(content) ==
    {content[i] : i \in 1..Len(content)} \cap {"postgresql://", "mongodb://"}

\* the scheme each database type is reached by
SchemeOf(db_type) == IF db_type = "postgresql" THEN "postgresql://" ELSE "mongodb://"

\* C12: for a Desktop, FastAPI or Mobile template with database_type postgresql
\* (mongodb), the composed FileSet has an ".env" entry holding a postgresql://
\* (mongodb://) URL and no URL of the other kind, and the matching
\* database-config module at <base_dir>/db/database.py.
C12_DatabaseConfigInFileSet ==
    \A c \in DOMAIN call :
        LET k == Rank(call[c].template)
            db_type == ConfigGet(call[c].config, "database_type", None)
        IN  (PastDatabase(c) /\ k \in 3..5 /\ db_type \in {"postgresql", "mongodb"}) =>
                LET fileset == heap[call[c].template_files]
                    module == <<CategoryBaseDir[k], "db", "database.py">>
                IN  /\ DictHas(fileset, <<".env">>)
                    /\ Schemes(DictGet(fileset, <<".env">>, <<>>)) = {SchemeOf(db_type)}
                    /\ DictHas(fileset, module)
                    /\ Schemes(DictGet(fileset, module, <<>>)) = {SchemeOf(db_type)}

\* a FastAPI project with the MongoDB feature and database_type postgresql:
\* the .env of the feature gives way to the PostgreSQL one, and it is written
C12_Witness ==
    \E c \in DOMAIN call :
        /\ call[c].pc = "done"
        /\ Contains(FastAPI, call[c].template)
        /\ ConfigGet(call[c].config, "features", <<>>) = <<"MongoDB">>
        /\ ConfigGet(call[c].config, "database_type", None) = "postgresql"
        /\ call[c].name = <<"demo">>
        /\ "postgresql://" \in Schemes(files[<<"home", "out", "demo", ".env">>])
        /\ <<"home", "out", "demo", "app", "db", "database.py">> \in DOMAIN files

-----------------------------------------------------------------------------
(* Claims about the written files                                          *)

\* the pieces of a content taken from the right: every placeholder gives way to
\* the name, once, and the name put in is not looked at again
RECURSIVE Substituted(_, _, _)
Substituted(content, name, n) ==
    IF n = 0 THEN <<>>
    ELSE Substituted(content, name, n - 1)
         \o (IF content[n] = PlaceholderToken THEN NameText(name) ELSE <<content[n]>>)

\* how many entries of the FileSet call c has written
Written(c) ==
    CASE call[c].pc = "write" -> call[c].i - 1
      [] call[c].pc \in {"git", "setup", "done"} -> Len(heap[call[c].template_files])
      [] OTHER -> 0

\* the text holds the placeholder
HoldsPlaceholder(text) == \E i \in 1..Len(text) : text[i] = PlaceholderToken

\* C13: every entry (path, content) of the composed FileSet that has been
\* written is on disk at project_path/path as content with each "{{name}}"
\* replaced by the project name; for a name of the allowed pattern no such file
\* holds "{{name}}" any more.
C13_PlaceholderReplaced ==
    \A c \in DOMAIN call :
        \A j \in 1..Written(c) :
            LET entry == heap[call[c].template_files][j]
                full_path == PathJoin(call[c].output_dir, call[c].name) \o entry[1]
            IN  /\ full_path \in DOMAIN files
                /\ files[full_path] = Substituted(entry[2], call[c].name, Len(entry[2]))
                /\ NameMatchesPattern(call[c].name) => ~HoldsPlaceholder(files[full_path])

\* a finished React project "my-app_2": public/index.html names the project
\* twice and both places now read my-app_2
C13_Witness ==
    \E c \in DOMAIN call :
        /\ call[c].pc = "done"
        /\ Contains(React, call[c].template)
        /\ call[c].name = <<"my-app_2">>
        /\ files[<<"home", "out", "my-app_2", "public", "index.html">>]
              = <<"#ca2860">> \o NameText(<<"my-app_2">>) \o <<"#6a6a07">>
                \o NameText(<<"my-app_2">>) \o <<"#b32a90">>

-----------------------------------------------------------------------------
(* Claims about the end of a call                                          *)

\* C14: a call that succeeds returns the path of the project root,
\* output_dir/name (stated here for names of the allowed pattern).
C14_ReturnsProjectRoot ==
    \A c \in DOMAIN call :
        (call[c].pc = "done" /\ NameMatchesPattern(call[c].name)) =>
            /\ call[c].result # None
            /\ call[c].result = PathJoin(call[c].output_dir, call[c].name)

\* the git commands of call c did not all succeed
GitFailed(c) == call[c].git \in GitOutcomes \ {"committed"}

\* every entry of the FileSet of call c is on disk with its content
FileSetOnDisk(c) ==
    \A j \in 1..Len(heap[call[c].template_files]) :
        LET entry == heap[call[c].template_files][j]
            full_path == call[c].project_path \o entry[1]
        IN  /\ full_path \in DOMAIN files
            /\ files[full_path] = Substituted(entry[2], call[c].name, Len(entry[2]))

\* C15: when git_init is on and git init, git add or git commit fails, no
\* exception leaves generate_project: the call goes on to SETUP.md and ends,
\* with every FileSet file still written and SETUP.md written; when git_init
\* is off no git command runs and no repository appears.
C15_GitFailureNotFatal ==
    \A c \in DOMAIN call :
        /\ GitFailed(c) =>
              /\ ConfigGet(call[c].config, "git_init", TRUE)
              /\ call[c].pc \in {"setup", "done"}
              /\ FileSetOnDisk(c)
              /\ call[c].pc = "done" =>
                    Append(call[c].project_path, "SETUP.md") \in DOMAIN files
        /\ ~ConfigGet(call[c].config, "git_init", TRUE) =>
              /\ call[c].git = "not run"
              /\ \A f \in DOMAIN files : \A i \in 1..Len(f) : f[i] # ".git"

\* a finished call whose git add failed: .git/HEAD is there, the index is not
C15_Witness ==
    \E c \in DOMAIN call :
        /\ call[c].pc = "done"
        /\ call[c].git = "add fails"
        /\ call[c].name = <<"demo">>
        /\ <<"home", "out", "demo", ".git", "HEAD">> \in DOMAIN files
        /\ <<"home", "out", "demo", ".git", "index">> \notin DOMAIN files
        /\ <<"home", "out", "demo", "SETUP.md">> \in DOMAIN files
        /\ <<"home", "out", "demo", "README.md">> \in DOMAIN files

-----------------------------------------------------------------------------
(* Claims about failing file operations                                    *)

\* the disk a call has made when it enters the write loop: the directory
\* prepared, the architecture folder and the add-on modules written
BeforeWriteLoop(template, name, output_dir, config) ==
    LET project_path == PathJoin(output_dir, name)
        base_dir == CategoryBaseDir[Rank(template)]
        fs1 == IF Exists(InitialFS, project_path)
               THEN Rmtree(InitialFS, project_path) ELSE InitialFS
        fs2 == create_architecture_folder(Mkdir(fs1, project_path), project_path, template)
        fs3 == IF ConfigGet(config, "enable_logger", TRUE) /\ ~IsReactOrNode(template)
               THEN add_logger(fs2, project_path, base_dir) ELSE fs2
    IN  IF ConfigGet(config, "enable_exception_handler", TRUE)
        THEN add_exception_handler(fs3, project_path, template, base_dir)
        ELSE fs3

\* the file at path p is as it was in fs (there with that content, or not there)
SameFileAsIn(fs, p) ==
    IF p \in DOMAIN fs.files
    THEN p \in DOMAIN files /\ files[p] = fs.files[p]
    ELSE p \notin DOMAIN files

\* C16: when writing an entry of the FileSet fails, the call is out of
\* generate_project with the error at that entry: the entries before it are
\* on disk as written, the entries after it were not written, no git command
\* ran and there is no SETUP.md.
C16_WriteFailureAborts ==
    \A c \in DOMAIN call :
        call[c].error = "write" =>
            LET fileset == heap[call[c].template_files]
                at == call[c].i
                before == BeforeWriteLoop(call[c].template, call[c].name,
                                          call[c].output_dir, call[c].config)
            IN  /\ call[c].pc = "raised"
                /\ call[c].result = "running"
                /\ at \in 1..Len(fileset)
                /\ \A j \in 1..(at - 1) :
                      LET full_path == call[c].project_path \o fileset[j][1]
                      IN  /\ full_path \in DOMAIN files
                          /\ files[full_path]
                                = Substituted(fileset[j][2], call[c].name, Len(fileset[j][2]))
                /\ \A j \in (at + 1)..Len(fileset) :
                      SameFileAsIn(before, call[c].project_path \o fileset[j][1])
                /\ call[c].git = "not run"
                /\ SameFileAsIn(before, call[c].project_path \o <<".git", "HEAD">>)
                /\ SameFileAsIn(before, Append(call[c].project_path, "SETUP.md"))

\* a React project whose fourth file could not be written: three files are
\* there, the fourth is empty, the fifth is missing, and so is SETUP.md
C16_Witness ==
    \E c \in DOMAIN call :
        /\ call[c].error = "write"
        /\ Contains(React, call[c].template)
        /\ call[c].name = <<"demo">>
        /\ call[c].i = 4
        /\ <<"home", "out", "demo", "public", "index.html">> \in DOMAIN files
        /\ <<"home", "out", "demo", "src", "index.tsx">> \in DOMAIN files
        /\ files[<<"home", "out", "demo", "src", "index.tsx">>] = <<>>
        /\ <<"home", "out", "demo", "src", "App.tsx">> \notin DOMAIN files
        /\ <<"home", "out", "demo", "SETUP.md">> \notin DOMAIN files

\* C17: when removing the old directory or creating the new one fails, the
\* call is out of generate_project with the error and has written nothing: no
\* file and no directory is on disk that was not there before the call.
C17_PrepareFailureAborts ==
    \A c \in DOMAIN call :
        call[c].error \in {"rmtree", "mkdir"} =>
            /\ call[c].pc = "raised"
            /\ call[c].result = "running"
            /\ call[c].git = "not run"
            /\ dirs \subseteq InitialFS.dirs
            /\ \A f \in DOMAIN files :
                  f \in DOMAIN InitialFS.files /\ files[f] = InitialFS.files[f]

\* rmtree of the old "demo" failed after removing old.txt: the old README.md
\* is still there and no architecture folder was made
C17_Witness ==
    \E c \in DOMAIN call :
        /\ call[c].error = "rmtree"
        /\ call[c].pc = "raised"
        /\ call[c].name = <<"demo">>
        /\ <<"home", "out", "demo", "old.txt">> \notin DOMAIN files
        /\ <<"home", "out", "demo", "README.md">> \in DOMAIN files
        /\ files[<<"home", "out", "demo", "README.md">>] = <<"#old/README.md">>
        /\ <<"home", "out", "demo", "architecture">> \notin dirs

-----------------------------------------------------------------------------
(* Claims about two calls at once                                          *)

\* the project directory call c is asked to make
ProjectDirOf(c) == PathJoin(call[c].output_dir, call[c].name)

\* the part of the disk in and below a directory
TreeAt(fs, dir) ==
    [dirs  |-> {d \in fs.dirs : IsPrefix(dir, d)},
     files |-> [f \in {g \in DOMAIN fs.files : IsPrefix(dir, g)} |-> fs.files[f]]]

\* two calls are running, for different pairs of output directory and name,
\* each name of the allowed pattern
TwoDifferentRequests ==
    /\ DOMAIN call = {1, 2}
    /\ <<call[1].output_dir, call[1].name>> # <<call[2].output_dir, call[2].name>>
    /\ NameMatchesPattern(call[1].name)
    /\ NameMatchesPattern(call[2].name)

\* neither project directory is the other or lies inside it
NotNested ==
    /\ ~IsPrefix(ProjectDirOf(1), ProjectDirOf(2))
    /\ ~IsPrefix(ProjectDirOf(2), ProjectDirOf(1))

\* no call has failed, and when both have ended the tree of each is the one
\* the call leaves when it runs alone
BothSucceedApart ==
    \A c \in DOMAIN call :
        /\ call[c].pc # "raised"
        /\ (\A d \in DOMAIN call : call[d].pc = "done") =>
              TreeAt(FS, ProjectDirOf(c))
                 = TreeAt(Outcome(call[c].template, call[c].name, call[c].output_dir,
                                  call[c].config, call[c].git).fs,
                          ProjectDirOf(c))

\* a step of one call leaves the project directory of the other as it is
StepsKeepApart ==
    \A c \in DOMAIN call :
        call'[c] = call[c] =>
            TreeAt([dirs |-> dirs', files |-> files'], ProjectDirOf(c))
               = TreeAt(FS, ProjectDirOf(c))

\* C18 as stated: two calls at once for different pairs of output directory
\* and name both succeed, and no step of one changes the project directory of
\* the other.
C18_DifferentRequestsApart ==
    /\ [](TwoDifferentRequests => BothSucceedApart)
    /\ [][TwoDifferentRequests => StepsKeepApart]_vars

\* C18, amended: the same, for two calls whose project directories are not
\* nested (neither is the other or lies inside it).
C18_DisjointDirectoriesApart ==
    /\ []((TwoDifferentRequests /\ NotNested) => BothSucceedApart)
    /\ [][(TwoDifferentRequests /\ NotNested) => StepsKeepApart]_vars

\* "demo" is finished over the old one while "my-app_2", beside it, is still
\* being written
C18_Witness ==
    /\ DOMAIN call = {1, 2}
    /\ call[1].name = <<"demo">> /\ call[1].output_dir = <<"home", "out">>
    /\ call[2].name = <<"my-app_2">> /\ call[2].output_dir = <<"home", "out">>
    /\ call[1].pc = "done"
    /\ call[2].pc = "write" /\ call[2].i = 3
    /\ <<"home", "out", "demo", "SETUP.md">> \in DOMAIN files
    /\ <<"home", "out", "demo", "old.txt">> \notin DOMAIN files
    /\ <<"home", "out", "my-app_2", "architecture", "README.md">> \in DOMAIN files

-----------------------------------------------------------------------------
(* Claims about the options and the user interface                         *)

\* every option given with the value the specification names as its default
ExplicitDefaults ==
    ("enable_logger" :> TRUE) @@ ("enable_exception_handler" :> TRUE)
    @@ ("database_type" :> None) @@ ("features" :> <<>>) @@ ("git_init" :> TRUE)

\* C19: a call with an empty config leaves the tree (SETUP.md and the
\* repository included) that the same call leaves with every option given
\* explicitly at its default (stated here for names of the allowed pattern).
C19_EmptyConfigIsDefaults ==
    \A c \in DOMAIN call :
        (/\ call[c].pc = "done"
         /\ call[c].config = EmptyConfig
         /\ NameMatchesPattern(call[c].name)) =>
            /\ call[c].git # "not run"
            /\ FS = Outcome(call[c].template, call[c].name, call[c].output_dir,
                            ExplicitDefaults, call[c].git).fs

\* the text matches ^[A-Za-z0-9_-]+$
MatchesNamePattern(text) ==
    /\ text # <<>>
    /\ \A i \in 1..Len(text) : text[i] \in {"a", "Z", "7", "-", "_"}

\* the message boxes with which generate() refuses a name
NameErrors ==
    {"Please enter a project name",
     "Project name can only contain letters, numbers, hyphens, and underscores"}

\* C20: the main window starts a GeneratorThread only for a name matching
\* ^[A-Za-z0-9_-]+$; for any other name Generate shows an error and no
\* thread is created.
C20_UiStartsValidNamesOnly ==
    /\ [](ui.generator_thread.started => MatchesNamePattern(ui.generator_thread.name))
    /\ [][(generate /\ ~MatchesNamePattern(Strip(ui.name_input))) =>
             (ui'.message \in NameErrors /\ ~ui'.generator_thread.started)]_vars


-----------------------------------------------------------------------------
(* Claims about the add-on modules in the finished project                 *)

\* the text add_logger writes to core/logger.py
LoggerModule ==
    add_logger(InitialFS, <<"p">>, "app").files[<<"p", "app", "core", "logger.py">>]

\* the text add_exception_handler writes to core/exceptions.py
ExceptionsModule ==
    add_exception_handler(InitialFS, <<"p">>, Desktop, "app")
        .files[<<"p", "app", "core", "exceptions.py">>]

\* the template is of the Desktop, FastAPI or Mobile category
IsDesktopFastAPIOrMobile(template) == Rank(template) \in {3, 4, 5}

LoggerPath(c) == call[c].project_path \o <<call[c].base_dir, "core", "logger.py">>

ExceptionsPath(c) == call[c].project_path \o <<call[c].base_dir, "core", "exceptions.py">>

\* C21: for a Desktop, FastAPI or Mobile template, after a successful call with
\* enable_logger true the project's <base_dir>/core/logger.py holds the text
\* add_logger writes, and with enable_exception_handler true its
\* <base_dir>/core/exceptions.py holds the text add_exception_handler writes.
C21_AddOnModulesHoldFixedText ==
    \A c \in DOMAIN call :
        (/\ call[c].pc = "done"
         /\ IsDesktopFastAPIOrMobile(call[c].template)
         /\ NameMatchesPattern(call[c].name)) =>
            /\ ConfigGet(call[c].config, "enable_logger", TRUE) =>
                  /\ LoggerPath(c) \in DOMAIN files
                  /\ files[LoggerPath(c)] = LoggerModule
            /\ ConfigGet(call[c].config, "enable_exception_handler", TRUE) =>
                  /\ ExceptionsPath(c) \in DOMAIN files
                  /\ files[ExceptionsPath(c)] = ExceptionsModule

\* the same for the Desktop category alone
C21_DesktopOnly ==
    \A c \in DOMAIN call :
        (call[c].pc = "done" /\ Rank(call[c].template) = 3) =>
            /\ ConfigGet(call[c].config, "enable_logger", TRUE) =>
                  /\ LoggerPath(c) \in DOMAIN files
                  /\ files[LoggerPath(c)] = LoggerModule
            /\ ConfigGet(call[c].config, "enable_exception_handler", TRUE) =>
                  /\ ExceptionsPath(c) \in DOMAIN files
                  /\ files[ExceptionsPath(c)] = ExceptionsModule

-----------------------------------------------------------------------------
(* Claims about the database entries in the written project                *)

\* the entries add_database_config sets, as a dict of its own
InjectedDatabase(db_type, base_dir) ==
    add_database_config(("injected" :> <<>>), db_type, "injected", base_dir)["injected"]

\* the call has left the write loop
PastWriteLoop(c) == call[c].pc \in {"git", "setup", "done"}

\* the call has not reached the write loop
BeforeDatabase(c) ==
    call[c].pc \in {"remove", "mkdir", "architecture", "logger", "exception", "database"}

\* C22: for a Desktop, FastAPI or Mobile template with database_type postgresql
\* or mongodb, the database entries are set on the FileSet, not on disk, before
\* the write loop (up to the database step the project has no .env), and once
\* the loop is over .env, <base_dir>/db/database.py and <base_dir>/db/__init__.py
\* on disk are the texts add_database_config sets, whatever the base or a
\* selected feature defines for those paths, with every "{{name}}" replaced by
\* the project name.
C22_DatabaseInjectionWritten ==
    \A c \in DOMAIN call :
        LET k == Rank(call[c].template)
            db_type == ConfigGet(call[c].config, "database_type", None)
            project_path == PathJoin(call[c].output_dir, call[c].name)
        IN  (k \in 3..5 /\ db_type \in {"postgresql", "mongodb"}) =>
                /\ (BeforeDatabase(c) /\ call[c].pc # "remove") =>
                      Append(project_path, ".env") \notin DOMAIN files
                /\ PastWriteLoop(c) =>
                      LET injected == InjectedDatabase(db_type, CategoryBaseDir[k])
                      IN  \A j \in 1..Len(injected) :
                             LET full_path == project_path \o injected[j][1]
                             IN  /\ full_path \in DOMAIN files
                                 /\ files[full_path]
                                       = Substituted(injected[j][2], call[c].name,
                                                     Len(injected[j][2]))
                                 /\ NameMatchesPattern(call[c].name) =>
                                       ~HoldsPlaceholder(files[full_path])

\* a finished FastAPI project "my-app_2" with the PostgreSQL feature and
\* database_type mongodb: the feature's .env and database.py gave way to the
\* MongoDB ones, which name the project
C22_Witness ==
    \E c \in DOMAIN call :
        /\ call[c].pc = "done"
        /\ Contains(FastAPI, call[c].template)
        /\ ConfigGet(call[c].config, "features", <<>>) = <<"PostgreSQL">>
        /\ ConfigGet(call[c].config, "database_type", None) = "mongodb"
        /\ call[c].name = <<"my-app_2">>
        /\ DictHas(fastapi_core_FEATURE_PostgreSQL, <<".env">>)
        /\ DictHas(fastapi_core_FEATURE_PostgreSQL, <<"app", "db", "database.py">>)
        /\ files[<<"home", "out", "my-app_2", ".env">>]
              = <<"#7913d2", "mongodb://", "#07d95d">> \o NameText(<<"my-app_2">>)
                \o <<"#724c55">> \o NameText(<<"my-app_2">>) \o <<"#2cff88">>
        /\ files[<<"home", "out", "my-app_2", "app", "db", "database.py">>]
              = <<"#0ca9cd", "mongodb://", "#93ae04">> \o NameText(<<"my-app_2">>)
                \o <<"#94dd0f">>

-----------------------------------------------------------------------------
(* Claims about the order of the steps                                     *)

\* the steps of generate_project in the order the claim gives them; a call at
\* step n has done the steps before n and no other
StepOrder ==
    <<"select", "remove", "mkdir", "architecture", "logger", "exception", "database",
      "write", "git", "setup", "done">>

StepOf(pc) == CHOOSE n \in 1..Len(StepOrder) : StepOrder[n] = pc

\* before its first step a call has changed nothing, and the repository step
\* is not taken before its place
NothingEarly ==
    \A c \in DOMAIN call :
        /\ call[c].pc \in {StepOrder[n] : n \in 1..Len(StepOrder)}
        /\ LET n == StepOf(call[c].pc)
           IN  /\ n = 1 => (FS = InitialFS /\ heap = CatalogHeap)
               /\ n <= 9 => (call[c].git = "not run" /\ call[c].commits = <<>>)

\* a step of a call is the step of StepOrder the call is at, done to what the
\* step before left, and it leads to the next one (the write loop to itself
\* until the FileSet is through)
StepInOrder ==
    \A c \in DOMAIN call :
        call'[c] # call[c] =>
            LET n == StepOf(call[c].pc)
                m == StepOf(call'[c].pc)
                template == call[c].template
                config == call[c].config
                python == ~Contains(React, template) /\ ~Contains(NodeJs, template)
                project_path == PathJoin(call[c].output_dir, call[c].name)
                base_dir == call[c].base_dir
                fileset == heap[call[c].template_files]
            IN  /\ n < Len(StepOrder)
                /\ n # 8 => (heap'[call'[c].template_files] = <<>> /\ n = 7 /\ m = 9)
                             \/ m = n + 1
                /\ n \notin {1, 7} => heap' = heap
                /\ n \in {1, 7} => FS' = FS
                /\ n = 1 =>
                      LET sel == SelectTemplate(heap, call'[c].template_files, template, config)
                      IN  heap' = sel.heap /\ call'[c].base_dir = sel.base_dir
                /\ n = 2 => FS' = IF Exists(FS, project_path)
                                   THEN Rmtree(FS, project_path) ELSE FS
                /\ n = 3 => FS' = Mkdir(FS, project_path)
                /\ n = 4 => FS' = create_architecture_folder(FS, project_path, template)
                /\ n = 5 => FS' = IF ConfigGet(config, "enable_logger", TRUE) /\ python
                                   THEN add_logger(FS, project_path, base_dir) ELSE FS
                /\ n = 6 => FS' = IF ConfigGet(config, "enable_exception_handler", TRUE)
                                   THEN add_exception_handler(FS, project_path, template,
                                                              base_dir)
                                   ELSE FS
                /\ n = 7 => heap' = IF Truthy(ConfigGet(config, "database_type", None))
                                        /\ python
                                     THEN add_database_config(heap, config["database_type"],
                                                              call[c].template_files, base_dir)
                                     ELSE heap
                /\ n = 8 =>
                      LET entry == fileset[call[c].i]
                          full_path == project_path \o entry[1]
                      IN  /\ call'[c].i = call[c].i + 1
                          /\ m = IF call[c].i = Len(fileset) THEN 9 ELSE 8
                          /\ FS' = WriteText(Mkdir(FS, Parent(full_path)), full_path,
                                             Substituted(entry[2], call[c].name,
                                                         Len(entry[2])))
                /\ n = 9 =>
                      IF ConfigGet(config, "git_init", TRUE)
                      THEN /\ call'[c].git \in GitOutcomes
                           /\ FS' = init_git_repo(FS, project_path, call'[c].git)
                      ELSE call'[c].git = "not run" /\ FS' = FS
                /\ n = 10 =>
                      FS' = create_setup_md(FS, project_path,
                                            PathName(call[c].output_dir, call[c].name),
                                            template, config)

\* C23: every call does its effects in the order compose FileSet, remove and
\* recreate the project directory, scaffold, logger, exception handler,
\* database entries in the FileSet, every FileSet file, repository (if
\* enabled), SETUP.md: each step works on what the steps before it left and
\* is followed by the next of the order, so that at no point an effect of a
\* later step is there.
C23_StepsInFixedOrder == []NothingEarly /\ [][StepInOrder]_vars

\* a Desktop call with every add-on and PostgreSQL, one entry into the write
\* loop: scaffold, logger and exception handler are on disk, the database
\* entries are in the FileSet but not on disk, there is no repository and no
\* SETUP.md
C23_Witness ==
    \E c \in DOMAIN call :
        /\ call[c].pc = "write"
        /\ call[c].i = 2
        /\ Contains(Desktop, call[c].template)
        /\ call[c].name = <<"demo">>
        /\ ConfigGet(call[c].config, "database_type", None) = "postgresql"
        /\ ConfigGet(call[c].config, "enable_logger", FALSE)
        /\ ConfigGet(call[c].config, "enable_exception_handler", FALSE)
        /\ <<"home", "out", "demo", "old.txt">> \notin DOMAIN files
        /\ <<"home", "out", "demo", "architecture", "README.md">> \in DOMAIN files
        /\ <<"home", "out", "demo", "app", "core", "logger.py">> \in DOMAIN files
        /\ <<"home", "out", "demo", "app", "core", "exceptions.py">> \in DOMAIN files
        /\ DictHas(heap[call[c].template_files], <<"app", "db", "database.py">>)
        /\ <<"home", "out", "demo", "app", "db", "database.py">> \notin DOMAIN files
        /\ <<"home", "out", "demo", ".git", "HEAD">> \notin DOMAIN files
        /\ <<"home", "out", "demo", "SETUP.md">> \notin DOMAIN files

-----------------------------------------------------------------------------
(* Claims about the main window and its GeneratorThread                    *)

\* a GeneratorThread is started and its finished signal is not handled yet
ThreadLive == ui.generator_thread.phase \in {"started", "running", "emitted"}

\* this step creates and starts a GeneratorThread
ThreadStarted ==
    /\ ui'.generator_thread.phase = "started"
    /\ ui'.generator_thread # ui.generator_thread \/ ui.generator_thread.phase # "started"

\* generate_project is being run
CallRunning == call # <<>> /\ call[1].pc \notin {"done", "raised"}

\* while a thread is live the button is disabled, and generate_project runs
\* only in a live thread
OneGenerationAtATime ==
    /\ ThreadLive => ~ui.generate_btn_enabled
    /\ CallRunning => ui.generator_thread.phase = "running"
    /\ Len(call) <= 1

\* C24: the Generate button is disabled from the start of a GeneratorThread
\* until its finished signal has been handled, and no GeneratorThread is
\* started while one is live.
C24_OneGenerationAtATime ==
    /\ []OneGenerationAtATime
    /\ [][ThreadStarted => (~ThreadLive /\ ~CallRunning)]_vars

\* the second generation of my-app_2 is in its write loop: the first one made
\* the directory, the user agreed to overwrite it, the button is disabled
C24_Witness ==
    /\ ui.generator_thread.phase = "running"
    /\ ui.generator_thread.name = PieceChars["my-app_2"]
    /\ ui.message = "Directory Exists: Yes"
    /\ ~ui.generate_btn_enabled
    /\ call # <<>>
    /\ call[1].pc = "write"
    /\ call[1].project_path = <<"home", "out", "my-app_2">>

\* what run() reports is what generate_project did: one finished signal per
\* thread, True exactly when the call came to its end, False and the text of
\* the exception when it raised; once handled, the button is enabled
ReportsOutcomeOnce ==
    /\ ui.generator_thread.emitted <= 1
    /\ ui.generator_thread.phase \in {"none", "started", "running"} =>
          ui.generator_thread.emitted = 0
    /\ ui.generator_thread.phase \in {"emitted", "handled"} =>
          /\ ui.generator_thread.emitted = 1
          /\ call # <<>>
          /\ ui.generator_thread.success <=> call[1].pc = "done"
          /\ ~ui.generator_thread.success =>
                /\ call[1].pc = "raised"
                /\ ui.generator_thread.text = call[1].error
    /\ ui.generator_thread.phase \in {"none", "started", "running", "emitted", "handled"}
    /\ ui.generator_thread.phase = "handled" => ui.generate_btn_enabled

\* C25: every GeneratorThread emits finished exactly once, with success True
\* if and only if generate_project returned without raising (else False and
\* the exception's text); once the signal is handled the button is enabled, so
\* every started generation leads to a window that accepts a new request.
C25_FinishedOnceThenAccepts ==
    /\ []ReportsOutcomeOnce
    /\ (ui.generator_thread.phase = "started")
          ~> (ui.generator_thread.phase = "handled" /\ ui.generate_btn_enabled)

\* a generation of my-app_2 failed in its write loop and the failure was
\* shown: the button is enabled again
C25_Witness ==
    /\ ui.generator_thread.phase = "handled"
    /\ ui.generator_thread.emitted = 1
    /\ ~ui.generator_thread.success
    /\ ui.generator_thread.text = "write"
    /\ ui.message = "Failed to generate project"
    /\ ui.generate_btn_enabled
    /\ call[1].pc = "raised"
    /\ call[1].name = <<"my-app_2">>

\* this step is a click on Generate answered No at the overwrite prompt
AnsweredNo ==
    /\ generate
    /\ UiProjectExists(Strip(ui.name_input))
    /\ ui'.message = "Directory Exists: No"

\* C26: when output_dir/name exists and the user answers No, no GeneratorThread
\* is started, generate_project is not invoked and the disk stays as it is,
\* in that step and for as long as no other click follows.
C26_NoLeavesDirectory ==
    /\ [](~ThreadLive => ~CallRunning)
    /\ [][AnsweredNo =>
             /\ ui'.generator_thread = ui.generator_thread
             /\ ui'.generate_btn_enabled = ui.generate_btn_enabled
             /\ UNCHANGED <<heap, dirs, files, call>>]_vars

\* my-app_2 was generated, Generate was clicked again and answered No: the
\* project of the first generation is whole
C26_Witness ==
    /\ ui.message = "Directory Exists: No"
    /\ ui.generator_thread.phase = "handled"
    /\ ui.generator_thread.success
    /\ ui.generator_thread.name = PieceChars["my-app_2"]
    /\ ui.generate_btn_enabled
    /\ <<"home", "out", "my-app_2", "SETUP.md">> \in DOMAIN files

-----------------------------------------------------------------------------
(* Claims about the merged manifest                                        *)

\* the names in a feature list that the category knows, as a set: neither the
\* order nor a repetition is kept
SelectedKnown(k, features) ==
    {features[j] : j \in 1..Len(features)} \cap DictKeys(CategoryFeatures[k])

\* the fragment of a feature of category k
FragmentOf(k, feature) == CatalogHeap[DictGet(CategoryFeatures[k], feature, None)]

\* the selected fragments of category k that carry a requirements.txt
WithManifest(k, features) ==
    {f \in SelectedKnown(k, features) : DictHas(FragmentOf(k, f), RequirementsTxt)}

\* the text whose lines are the given set, sorted, each ended by a newline
ManifestOf(lines) == Join(Sorted(lines), NL) \o <<NL>>

\* the sorted union of the base manifest's lines and the lines of the
\* manifests of the selected fragments
UnionManifest(k, features) ==
    ManifestOf(
        StrippedLines(DictGet(CatalogHeap[CategoryBase[k]], RequirementsTxt, <<>>))
        \cup UNION {StrippedLines(DictGet(FragmentOf(k, f), RequirementsTxt, <<>>)) :
                       f \in WithManifest(k, features)})

\* C27: for a Desktop, FastAPI or Mobile template with at least one selected
\* recognized feature that carries a requirements.txt, the composed
\* requirements.txt is the sorted union without repetition of the lines of the
\* base manifest and of every selected fragment's manifest; it depends on the
\* set of selected features only, not on their order or repetition.
C27_ManifestIsSortedUnion ==
    \A c \in DOMAIN call :
        LET k == Rank(call[c].template)
            features == ConfigGet(call[c].config, "features", <<>>)
        IN  (k \in 3..5 /\ call[c].pc # "select" /\ WithManifest(k, features) # {}) =>
                /\ DictHas(heap[call[c].template_files], RequirementsTxt)
                /\ DictGet(heap[call[c].template_files], RequirementsTxt, None)
                      = UnionManifest(k, features)

\* Mobile with Image Processing then Push Notifications: the manifest has the
\* lines of the base and of both, and is neither the base's nor a fragment's
C27_Witness ==
    \E c \in DOMAIN call :
        /\ Contains(Mobile, call[c].template)
        /\ call[c].config["features"] = <<"Image Processing", "Push Notifications">>
        /\ call[c].pc = "remove"
        /\ LET manifest == DictGet(heap[call[c].template_files], RequirementsTxt, None)
               base == DictGet(mobile_backend_BASE_TEMPLATE, RequirementsTxt, <<>>)
               push == DictGet(mobile_backend_FEATURE_PushNotifications, RequirementsTxt, <<>>)
               image == DictGet(mobile_backend_FEATURE_ImageProcessing, RequirementsTxt, <<>>)
           IN  /\ StrippedLines(manifest)
                     = StrippedLines(base) \cup StrippedLines(push) \cup StrippedLines(image)
               /\ StrippedLines(push) \ StrippedLines(base) # {}
               /\ StrippedLines(image) \ (StrippedLines(base) \cup StrippedLines(push)) # {}
               /\ manifest # base

\* C28: for every template category, a finished project asked for with
\* enable_logger false has no <base_dir>/core/logger.py, and one asked for with
\* enable_exception_handler false has no <base_dir>/core/exceptions.py.
C28_DisabledAddOnAbsent ==
    \A c \in DOMAIN call :
        (call[c].pc = "done" /\ NameMatchesPattern(call[c].name)) =>
            /\ ~ConfigGet(call[c].config, "enable_logger", TRUE) =>
                  LoggerPath(c) \notin DOMAIN files
            /\ ~ConfigGet(call[c].config, "enable_exception_handler", TRUE) =>
                  ExceptionsPath(c) \notin DOMAIN files

\* the same for the categories whose base FileSet has no core/logger.py and
\* core/exceptions.py: all but FastAPI and Mobile
C28_OtherCategories ==
    \A c \in DOMAIN call :
        (call[c].pc = "done" /\ Rank(call[c].template) \notin {4, 5}) =>
            /\ ~ConfigGet(call[c].config, "enable_logger", TRUE) =>
                  LoggerPath(c) \notin DOMAIN files
            /\ ~ConfigGet(call[c].config, "enable_exception_handler", TRUE) =>
                  ExceptionsPath(c) \notin DOMAIN files

-----------------------------------------------------------------------------
(* Claims about SETUP.md and the repository                                *)

\* the SETUP.md of the project has a "Database: <TYPE>" line
SetupReportsDatabase(c) ==
    LET setup == Append(call[c].project_path, "SETUP.md")
    IN  /\ setup \in DOMAIN files
        /\ \E i \in 1..Len(files[setup]) : files[setup][i] = "#setup/Database: "

\* add_database_config was called in this run and set its .env and
\* <base_dir>/db/database.py entries, which the FileSet holds
DatabaseInjected(c) ==
    LET db_type == ConfigGet(call[c].config, "database_type", None)
        injected == IF Truthy(db_type) THEN InjectedDatabase(db_type, call[c].base_dir)
                    ELSE <<>>
        module == <<call[c].base_dir, "db", "database.py">>
    IN  /\ Truthy(db_type)
        /\ ~Contains(React, call[c].template)
        /\ ~Contains(NodeJs, call[c].template)
        /\ DictHas(injected, <<".env">>)
        /\ DictHas(injected, module)
        /\ DictGet(heap[call[c].template_files], <<".env">>, None)
              = DictGet(injected, <<".env">>, <<>>)
        /\ DictGet(heap[call[c].template_files], module, None)
              = DictGet(injected, module, <<>>)

\* C29: for every template and config, the SETUP.md of a finished project has
\* a "Database: <TYPE>" line if and only if add_database_config added an .env
\* entry and a <base_dir>/db/database.py module to the FileSet in that run.
C29_SetupReportsGeneratedDatabase ==
    \A c \in DOMAIN call :
        (call[c].pc = "done" /\ NameMatchesPattern(call[c].name)) =>
            (SetupReportsDatabase(c) <=> DatabaseInjected(c))

\* one direction holds: a database that was injected is reported
C29_InjectedIsReported ==
    \A c \in DOMAIN call :
        (call[c].pc = "done" /\ DatabaseInjected(c)) => SetupReportsDatabase(c)

\* and the other holds for the Desktop, FastAPI, Mobile and generic categories
\* when database_type is none, postgresql or mongodb
C29_KnownTypesPythonOnly ==
    \A c \in DOMAIN call :
        (/\ call[c].pc = "done"
         /\ Rank(call[c].template) \in 3..6
         /\ ConfigGet(call[c].config, "database_type", None)
               \in {None, "postgresql", "mongodb"}) =>
            (SetupReportsDatabase(c) <=> DatabaseInjected(c))

\* the files of the project directory that are generated and not ignored:
\* all but the repository's own files and those .gitignore excludes
ShouldBeTracked(c) ==
    {rel \in FilesBelow(FS, call[c].project_path) :
        /\ rel[1] # ".git"
        /\ ~GitIgnored(FS, call[c].project_path, rel)}

\* the call ran the three git commands and each succeeded
GitSucceeded(c) ==
    /\ ConfigGet(call[c].config, "git_init", TRUE)
    /\ call[c].git = "committed"

\* C30: when git_init is enabled and every git command succeeds, the
\* repository of the finished project has exactly one commit, and it holds
\* every generated file of the project directory that .gitignore does not
\* exclude.
C30_CommitHoldsEveryFile ==
    \A c \in DOMAIN call :
        (call[c].pc = "done" /\ GitSucceeded(c) /\ NameMatchesPattern(call[c].name)) =>
            /\ Len(call[c].commits) = 1
            /\ ShouldBeTracked(c) \subseteq call[c].commits[1]

\* what does hold: one commit, with every file but SETUP.md (and the ignored
\* .env), SETUP.md being written after the commit
C30_AllButSetupMd ==
    \A c \in DOMAIN call :
        (call[c].pc = "done" /\ GitSucceeded(c)) =>
            /\ Len(call[c].commits) = 1
            /\ ShouldBeTracked(c) \ call[c].commits[1] = {SetupPath}
            /\ call[c].commits[1] \subseteq ShouldBeTracked(c)
====
